---- MODULE Spec2Model ----
(***************************************************************************)
(* A model of GitHubClient (src/src/github_client.py): connect() and the   *)
(* sequential batch create_issues_batch() with its two run-scoped caches,  *)
(* run against a remote repository whose calls may each succeed or fail.   *)
(*                                                                         *)
(* Strings are sequences of one-character strings, so that str.lower() is  *)
(* computed character by character.  An Optional value is None (the empty  *)
(* sequence) or Some(v) (the one-element sequence holding v).              *)
(* Remote calls that raise are GithubException with a dict payload, as in  *)
(* the unit tests, or any other Exception.                                 *)
(***************************************************************************)
EXTENDS Integers, Sequences, FiniteSets, TLC

\* ------------------------------------------------------------------ bounds

\* The longest list of records handed to create_issues_batch.
MaxRecords == 2

\* The longest list of columns of a project the pure functions are applied to.
MaxColumns == 2

\* The most cells of a row handed to parse_project_fields_from_csv_row.
MaxRowCells == 2

\* The most data rows of a CSV file.
MaxRows == 2

\* ----------------------------------------------------------------- strings

UpperLetters == <<"A","B","C","D","E","F","G","H","I","J","K","L","M",
                  "N","O","P","Q","R","S","T","U","V","W","X","Y","Z">>

LowerLetters == <<"a","b","c","d","e","f","g","h","i","j","k","l","m",
                  "n","o","p","q","r","s","t","u","v","w","x","y","z">>

\* One character of str.lower(): an upper-case letter maps to its lower-case
\* letter, every other character to itself.
LowerChar(c) ==
    IF \E k \in DOMAIN UpperLetters : UpperLetters[k] = c
    THEN LowerLetters[CHOOSE k \in DOMAIN UpperLetters : UpperLetters[k] = c]
    ELSE c

\* str.lower()
Lower(s) == [k \in DOMAIN s |-> LowerChar(s[k])]

None == <<>>

Some(v) == <<v>>

\* Python truthiness of an Optional[str]: None and "" are falsy.
Truthy(opt) == opt # None /\ opt[1] # <<>>

\* ------------------------------------------------------------------ inputs

TitleFix == <<"F","i","x">>

TitleFIX == <<"F","I","X">>

TitleDoc == <<"D","o","c">>

LabelBug == <<"B","u","g">>

Labelbug == <<"b","u","g">>

Labelui == <<"u","i">>

LabelUI == <<"U","I">>

UserAl == <<"a","l">>

Body == <<"t","x","t">>

Url == <<"u","r","l">>

\* IssueData (csv_parser.py)
IssueData(t, d, a, l) == [title |-> t, description |-> d, assignee |-> a, labels |-> l]

\* The records a batch is drawn from: a title that differs only in case from
\* an open remote issue, with an assignee and one label; a fresh title with
\* an assignee and one label to create, listed twice; the same fresh title
\* with no assignee and three labels, of which one is a remote label in
\* another case and two differ from each other only in case.
IssueRecords ==
    { IssueData(TitleFix, Body, Some(UserAl), <<Labelui>>),
      IssueData(TitleDoc, Body, Some(UserAl), <<Labelui, Labelui>>),
      IssueData(TitleDoc, Body, None, <<LabelUI, Labelbug, Labelui>>) }

\* Every list of at most MaxRecords records.
Batches == UNION {[1..n -> IssueRecords] : n \in 0..MaxRecords}

\* Open-issue titles and labels the remote repository may hold at the start.
RemoteIssueSets == {{}, {TitleFIX}}

RemoteLabelSets == {{}, {LabelBug}}

\* ------------------------------------------------------------------- state

VARIABLES
    github,                  \* self.github: None or Some("Github")
    repo,                    \* self.repo: None or Some("Repository")
    existing_issues_cache,   \* self._existing_issues_cache: None or Some(set)
    existing_labels_cache,   \* self._existing_labels_cache: None or Some(dict)
    remoteIssues,            \* titles of the repository's open issues
    remoteLabels,            \* names of the repository's labels
    pc,                      \* where the caller / the batch stands
    ret,                     \* what the latest completed call returned or raised
    issues,                  \* create_issues_batch's argument
    i,                       \* index of the record being processed (1-based)
    results, successful, failed, skipped,   \* create_issues_batch's locals
    assignee,                \* _create_single_issue's local
    valid_labels,            \* _ensure_labels_exist's local
    j,                       \* index of the label being reconciled (1-based)
    calls,                   \* the remote calls the batch has issued, in order
    everConnected            \* history: some connect() has returned True

clientVars == <<github, repo, existing_issues_cache, existing_labels_cache>>

remoteVars == <<remoteIssues, remoteLabels>>

batchVars == <<issues, i, results, successful, failed, skipped>>

recordVars == <<assignee, valid_labels, j>>

\* The state of GitHubClient and of the repository it talks to.
issueVars == <<clientVars, remoteVars, batchVars, recordVars, pc, ret, calls, everConnected>>

\* GitHubProjectsClient (src/src/projects_client.py) and the projects it talks to.
VARIABLES
    projects_cache,          \* self._projects_cache: None or Some(list of ProjectInfo)
    remoteProjects,          \* the project nodes each scope's listing answers with
    ppc,                     \* where the projects client's current call stands
    pcall,                   \* the current / latest call of the projects client
    pret,                    \* what the latest completed call returned
    gql,                     \* the graph calls the current / latest call issued, in order
    found,                   \* get_projects's local `projects`
    item_id,                 \* add_issue_to_project's local
    fi,                      \* index of the custom field being set (1-based)
    discovered               \* history: some get_projects() has returned

projVars == <<projects_cache, remoteProjects, ppc, pcall, pret, gql, found, item_id,
              fi, discovered>>

\* The pure functions of GitHubProjectsClient applied to one project.
VARIABLES
    project,                 \* the ProjectInfo the functions are applied to
    fret                     \* the latest application: its arguments and its result

fnVars == <<project, fret>>

\* CSVParser (src/src/csv_parser.py) and the file it reads.
VARIABLES
    csvFile,                 \* the file at csv_file_path: its header line and its rows
    df,                      \* self.df: None or Some(the data frame)
    column_map,              \* self.column_map
    cpc,                     \* where parse() stands
    row_i,                   \* index of the row being converted (1-based)
    parsed,                  \* parse()'s local `issues`
    warnings,                \* the rows a warning was printed for, in order
    cret                     \* what parse() returned or raised

csvVars == <<csvFile, df, column_map, cpc, row_i, parsed, warnings, cret>>

vars == <<issueVars, projVars, fnVars, csvVars>>

\* No GitHubClient call is made: the client stays as constructed.
IssueClientUnused ==
    /\ github = <<>>
    /\ repo = <<>>
    /\ existing_issues_cache = <<>>
    /\ existing_labels_cache = <<>>
    /\ remoteIssues = {}
    /\ remoteLabels = {}
    /\ pc = "idle"
    /\ ret = [call |-> "none"]
    /\ issues = <<>>
    /\ i = 0
    /\ results = <<>>
    /\ successful = 0
    /\ failed = 0
    /\ skipped = 0
    /\ assignee = <<>>
    /\ valid_labels = <<>>
    /\ j = 0
    /\ calls = <<>>
    /\ everConnected = FALSE

\* No GitHubProjectsClient call is made: the client stays as constructed.
ProjectsClientUnused ==
    /\ projects_cache = <<>>
    /\ remoteProjects = [repository |-> <<>>, organization |-> <<>>, user |-> <<>>]
    /\ ppc = "idle"
    /\ pcall = [op |-> "none"]
    /\ pret = [call |-> "none"]
    /\ gql = <<>>
    /\ found = <<>>
    /\ item_id = <<>>
    /\ fi = 0
    /\ discovered = FALSE

\* No function of the projects client is applied.
FieldsUnused ==
    /\ project = [id |-> "none", title |-> <<>>, columns |-> <<>>, custom_fields |-> <<>>]
    /\ fret = [call |-> "none"]

\* No CSVParser is used.
CsvUnused ==
    /\ csvFile = [headers |-> <<>>, rows |-> <<>>]
    /\ df = <<>>
    /\ column_map = <<>>
    /\ cpc = "new"
    /\ row_i = 0
    /\ parsed = <<>>
    /\ warnings = <<>>
    /\ cret = [call |-> "none"]

\* IssueCreationResult
IssueCreationResult(s, d, url, err, sk, why) ==
    [success |-> s, issue_data |-> d, issue_url |-> url,
     error_message |-> err, skipped |-> sk, skip_reason |-> why]

\* BatchResult
BatchResult(t, s, f, k, rs) ==
    [total_issues |-> t, successful |-> s, failed |-> f, skipped |-> k, results |-> rs]

\* The RuntimeError of create_issues_batch.
PreconditionError == "RuntimeError: Must call connect() successfully before creating issues"

\* One remote call of the batch: the operation, the record it was issued for
\* (0 while the caches are built), its argument (for a listing call, what the
\* repository holds at that moment) and whether it succeeded.
Call(op, rec, arg, ok) == [op |-> op, rec |-> rec, arg |-> arg, ok |-> ok]

\* __init__
Init ==
    /\ github = None
    /\ repo = None
    /\ existing_issues_cache = None
    /\ existing_labels_cache = None
    /\ remoteIssues \in RemoteIssueSets
    /\ remoteLabels \in RemoteLabelSets
    /\ pc = "idle"
    /\ ret = [call |-> "none"]
    /\ issues = <<>>
    /\ i = 0
    /\ results = <<>>
    /\ successful = 0
    /\ failed = 0
    /\ skipped = 0
    /\ assignee = None
    /\ valid_labels = <<>>
    /\ j = 0
    /\ calls = <<>>
    /\ everConnected = FALSE
    /\ ProjectsClientUnused
    /\ FieldsUnused
    /\ CsvUnused

\* ----------------------------------------------------------------- connect

\* How connect() can end: both lookups succeed, get_user or get_repo raises a
\* GithubException (401, 404, another status), or anything else is raised.
ConnectOutcomes == {"ok", "401", "404", "api_error", "unexpected"}

\* self.repo bound to a repository handle before the lookups have answered.
RepoAfterConnectEager(outcome) == Some("Repository")

\* self.repo after connect(): assigned only when get_repo returned.
RepoAfterConnect(outcome) == IF outcome = "ok" THEN Some("Repository") ELSE repo

\* connect()
Connect ==
    /\ pc = "idle"
    /\ \E outcome \in ConnectOutcomes :
        /\ github' = Some("Github")
        /\ repo' = RepoAfterConnect(outcome)
        /\ ret' = [call |-> "connect", value |-> (outcome = "ok")]
        /\ everConnected' = (everConnected \/ outcome = "ok")
    /\ UNCHANGED <<existing_issues_cache, existing_labels_cache, remoteVars,
                   batchVars, recordVars, pc, calls>>
    /\ UNCHANGED <<projVars, fnVars, csvVars>>

\* ------------------------------------------------------- create_issues_batch

\* The precondition check left out.
NotConnectedUnchecked == FALSE

\* `if not self.repo`
NotConnected == repo = None

\* create_issues_batch() on a client without a repository: raises.
CreateIssuesBatchRefused ==
    /\ pc = "idle"
    /\ NotConnected
    /\ ret' = [call |-> "create_issues_batch", raised |-> PreconditionError]
    /\ UNCHANGED <<clientVars, remoteVars, batchVars, recordVars, pc, calls,
                   everConnected>>
    /\ UNCHANGED <<projVars, fnVars, csvVars>>

\* create_issues_batch(issues) passes the precondition.
CreateIssuesBatchBegin ==
    /\ pc = "idle"
    /\ ~NotConnected
    /\ \E input \in Batches : issues' = input
    /\ pc' = "cache_issues"
    /\ ret' = [call |-> "create_issues_batch", running |-> TRUE]
    /\ UNCHANGED <<clientVars, remoteVars, i, results, successful, failed, skipped,
                   recordVars, calls, everConnected>>
    /\ UNCHANGED <<projVars, fnVars, csvVars>>

\* The title set _cache_existing_issues builds from a listing.
TitleSnapshot(listing) == {Lower(t) : t \in listing}

\* The title cache left unset when the listing raises.
TitleCacheUnsetOnFailure(ok) ==
    IF ok THEN Some(TitleSnapshot(remoteIssues)) ELSE None

\* self._existing_issues_cache after _cache_existing_issues(): the listing's
\* lower-cased titles, or the empty set when the listing raises.
TitleCacheAfterListing(ok) ==
    Some(IF ok THEN TitleSnapshot(remoteIssues) ELSE {})

\* _cache_existing_issues()
CacheExistingIssues ==
    /\ pc = "cache_issues"
    /\ \E ok \in BOOLEAN :
        /\ existing_issues_cache' = TitleCacheAfterListing(ok)
        /\ calls' = Append(calls, Call("get_issues", 0, remoteIssues, ok))
    /\ pc' = "cache_labels"
    /\ UNCHANGED <<github, repo, existing_labels_cache, remoteVars, batchVars,
                   recordVars, ret, everConnected>>
    /\ UNCHANGED <<projVars, fnVars, csvVars>>

\* The dict holding the lower-cased names as its values too.
LabelSnapshotLowered(listing) == [k \in {Lower(n) : n \in listing} |-> k]

\* The dict _cache_existing_labels builds from a listing.
LabelSnapshot(listing) ==
    [k \in {Lower(n) : n \in listing} |-> CHOOSE n \in listing : Lower(n) = k]

\* The empty dict.
EmptyDict == [k \in {} |-> <<>>]

\* self._existing_labels_cache after _cache_existing_labels(): the listing's
\* names keyed by their lower-cased form, or the empty dict when the listing
\* raises.
LabelCacheAfterListing(ok) ==
    Some(IF ok THEN LabelSnapshot(remoteLabels) ELSE EmptyDict)

\* _cache_existing_labels(), then the batch's locals are initialised.
CacheExistingLabels ==
    /\ pc = "cache_labels"
    /\ \E ok \in BOOLEAN :
        /\ existing_labels_cache' = LabelCacheAfterListing(ok)
        /\ calls' = Append(calls, Call("get_labels", 0, remoteLabels, ok))
    /\ results' = <<>>
    /\ successful' = 0
    /\ failed' = 0
    /\ skipped' = 0
    /\ i' = 1
    /\ pc' = "record"
    /\ UNCHANGED <<github, repo, existing_issues_cache, remoteVars, issues,
                   recordVars, ret, everConnected>>
    /\ UNCHANGED <<projVars, fnVars, csvVars>>

\* ------------------------------------------------------ _create_single_issue

\* The title looked up as written, without lower-casing it.
IssueTitleExistsExactCase(title) ==
    IF existing_issues_cache = None
    THEN FALSE
    ELSE title \in existing_issues_cache[1]

\* _issue_title_exists(title)
IssueTitleExists(title) ==
    IF existing_issues_cache = None
    THEN FALSE
    ELSE Lower(title) \in existing_issues_cache[1]

\* The result of a record whose title already exists.
SkippedResult(d) ==
    IssueCreationResult(FALSE, d, None, None, TRUE, Some("already exists"))

\* The result of a record whose issue was created.
CreatedResult(d, url) == IssueCreationResult(TRUE, d, Some(url), None, FALSE, None)

\* A failure reported with the skipped flag set.
FailedResultAsSkipped(d, msg) ==
    IssueCreationResult(FALSE, d, None, Some(msg), TRUE, None)

\* The result of a record whose creation raised.
FailedResult(d, msg) == IssueCreationResult(FALSE, d, None, Some(msg), FALSE, None)

\* Tally with the skip branch forgotten: a skipped result raises no counter.
TallyNoSkip(result) ==
    IF result.success THEN "successful"
    ELSE IF result.skipped THEN "uncounted"
    ELSE "failed"

\* The batch loop's tally of one result: which counter goes up.
Tally(result) ==
    IF result.success THEN "successful"
    ELSE IF result.skipped THEN "skipped"
    ELSE "failed"

\* The batch loop staying on a record whose result is a failure, so that the
\* record is processed again.
RecordRetryingFailed(result) ==
    /\ results' = Append(results, result)
    /\ successful' = successful + (IF Tally(result) = "successful" THEN 1 ELSE 0)
    /\ skipped' = skipped + (IF Tally(result) = "skipped" THEN 1 ELSE 0)
    /\ failed' = failed + (IF Tally(result) = "failed" THEN 1 ELSE 0)
    /\ i' = IF Tally(result) = "failed" THEN i ELSE i + 1
    /\ assignee' = None
    /\ valid_labels' = <<>>
    /\ j' = 0
    /\ pc' = "record"

\* The batch loop's body after _create_single_issue returned `result`:
\* append it, count it, and go on to the next record.
Record(result) ==
    /\ results' = Append(results, result)
    /\ successful' = successful + (IF Tally(result) = "successful" THEN 1 ELSE 0)
    /\ skipped' = skipped + (IF Tally(result) = "skipped" THEN 1 ELSE 0)
    /\ failed' = failed + (IF Tally(result) = "failed" THEN 1 ELSE 0)
    /\ i' = i + 1
    /\ assignee' = None
    /\ valid_labels' = <<>>
    /\ j' = 0
    /\ pc' = "record"

\* A record whose title is in the title cache: skipped, no remote call.
SkipDuplicate ==
    /\ pc = "record"
    /\ i <= Len(issues)
    /\ IssueTitleExists(issues[i].title)
    /\ Record(SkippedResult(issues[i]))
    /\ UNCHANGED <<clientVars, remoteVars, issues, ret, calls, everConnected>>
    /\ UNCHANGED <<projVars, fnVars, csvVars>>

\* A record whose title is not in the title cache goes on to validation.
BeginRecord ==
    /\ pc = "record"
    /\ i <= Len(issues)
    /\ ~IssueTitleExists(issues[i].title)
    /\ pc' = "assignee"
    /\ UNCHANGED <<clientVars, remoteVars, batchVars, recordVars, ret, calls,
                   everConnected>>
    /\ UNCHANGED <<projVars, fnVars, csvVars>>

\* How get_collaborator_permission can end.
LookupOutcomes == {"ok", "404", "api_error", "unexpected"}

\* The assignee kept whatever the lookup answered.
ValidatedAssigneeUnchecked(name, outcome) == Some(name)

\* What _validate_assignee returns once the lookup for `name` ended.
ValidatedAssignee(name, outcome) == IF outcome = "ok" THEN Some(name) ELSE None

\* _validate_assignee(issue_data.assignee)
ValidateAssignee ==
    /\ pc = "assignee"
    /\ IF ~Truthy(issues[i].assignee)
       THEN /\ assignee' = None
            /\ calls' = calls
       ELSE \E outcome \in LookupOutcomes :
            /\ assignee' = ValidatedAssignee(issues[i].assignee[1], outcome)
            /\ calls' = Append(calls, Call("get_collaborator_permission", i,
                                           issues[i].assignee[1], outcome = "ok"))
    /\ valid_labels' = <<>>
    /\ j' = 1
    /\ pc' = "labels"
    /\ UNCHANGED <<clientVars, remoteVars, batchVars, ret, everConnected>>
    /\ UNCHANGED <<projVars, fnVars, csvVars>>

\* The label looked up as written, without lower-casing it.
CacheGetExactCase(label) ==
    IF label \in DOMAIN existing_labels_cache[1]
    THEN Some(existing_labels_cache[1][label])
    ELSE None

\* self._existing_labels_cache.get(label.lower())
CacheGet(label) ==
    IF Lower(label) \in DOMAIN existing_labels_cache[1]
    THEN Some(existing_labels_cache[1][Lower(label)])
    ELSE None

\* The cache update after a label creation left out.
CachePutDropped(label, name) == existing_labels_cache

\* self._existing_labels_cache[label.lower()] = name
CachePut(label, name) ==
    Some([k \in DOMAIN existing_labels_cache[1] \cup {Lower(label)} |->
            IF k = Lower(label) THEN name ELSE existing_labels_cache[1][k]])

\* The name of the label the remote returns from create_label(name=label).
NewLabelName(label) == label

\* A failed creation throwing away the labels collected so far.
ValidLabelsResetOnFailure(ok, name) ==
    IF ok THEN Append(valid_labels, name) ELSE <<>>

\* valid_labels after create_label for a missing label ended: the new
\* label's name is appended, or on failure the list is left as it is and the
\* loop continues.
ValidLabelsAfterCreate(ok, name) ==
    IF ok THEN Append(valid_labels, name) ELSE valid_labels

\* One iteration of _ensure_labels_exist's loop: a cached label is taken from
\* the cache; a missing one is created, and on success appended and cached,
\* on failure skipped.
EnsureLabel ==
    /\ pc = "labels"
    /\ j <= Len(issues[i].labels)
    /\ LET label == issues[i].labels[j]
           existing_label == CacheGet(label)
       IN  IF Truthy(existing_label)
           THEN /\ valid_labels' = Append(valid_labels, existing_label[1])
                /\ UNCHANGED <<existing_labels_cache, remoteLabels, calls>>
           ELSE \E ok \in BOOLEAN :
                /\ calls' = Append(calls, Call("create_label", i, label, ok))
                /\ valid_labels' = ValidLabelsAfterCreate(ok, NewLabelName(label))
                /\ IF ok
                   THEN /\ existing_labels_cache' = CachePut(label, NewLabelName(label))
                        /\ remoteLabels' = remoteLabels \cup {NewLabelName(label)}
                   ELSE UNCHANGED <<existing_labels_cache, remoteLabels>>
    /\ j' = j + 1
    /\ UNCHANGED <<github, repo, existing_issues_cache, remoteIssues, batchVars,
                   assignee, pc, ret, everConnected>>
    /\ UNCHANGED <<projVars, fnVars, csvVars>>

\* How self.repo.create_issue can end.
CreateOutcomes == {"ok", "api_error", "unexpected"}

\* The arguments of self.repo.create_issue(...)
CreateArgs(d) ==
    [title |-> d.title, body |-> d.description, assignee |-> assignee,
     labels |-> valid_labels]

\* The title cache extended with the title of the issue just created.
TitleCacheWithCreated(title) ==
    Some(existing_issues_cache[1] \cup {Lower(title)})

\* self._existing_issues_cache once an issue titled `title` was created: the
\* code leaves the title cache as it is.
TitleCacheAfterCreate(title) == existing_issues_cache

\* A failed creation reported as a skipped record.
CreateResultSkippingFailed(d, outcome) ==
    IF outcome = "ok" THEN CreatedResult(d, Url) ELSE SkippedResult(d)

\* What _create_single_issue returns once create_issue ended.
CreateResult(d, outcome) ==
    IF outcome = "ok" THEN CreatedResult(d, Url)
    ELSE IF outcome = "api_error" THEN FailedResult(d, "GitHub API error")
    ELSE FailedResult(d, "Unexpected error")

\* self.repo.create_issue(...) once the labels are reconciled, and the
\* batch loop's handling of the result.
CreateIssue ==
    /\ pc = "labels"
    /\ j > Len(issues[i].labels)
    /\ \E outcome \in CreateOutcomes :
        /\ calls' = Append(calls, Call("create_issue", i, CreateArgs(issues[i]),
                                       outcome = "ok"))
        /\ remoteIssues' = IF outcome = "ok"
                           THEN remoteIssues \cup {issues[i].title}
                           ELSE remoteIssues
        /\ existing_issues_cache' = IF outcome = "ok"
                                    THEN TitleCacheAfterCreate(issues[i].title)
                                    ELSE existing_issues_cache
        /\ Record(CreateResult(issues[i], outcome))
    /\ UNCHANGED <<github, repo, existing_labels_cache, remoteLabels, issues, ret,
                   everConnected>>
    /\ UNCHANGED <<projVars, fnVars, csvVars>>

\* The loop is over: create_issues_batch returns its BatchResult.
ReturnBatch ==
    /\ pc = "record"
    /\ i > Len(issues)
    /\ ret' = [call |-> "create_issues_batch",
               value |-> BatchResult(Len(issues), successful, failed, skipped, results)]
    /\ pc' = "returned"
    /\ UNCHANGED <<clientVars, remoteVars, batchVars, recordVars, calls,
                   everConnected>>
    /\ UNCHANGED <<projVars, fnVars, csvVars>>

Next ==
    \/ Connect
    \/ CreateIssuesBatchRefused
    \/ CreateIssuesBatchBegin
    \/ CacheExistingIssues
    \/ CacheExistingLabels
    \/ SkipDuplicate
    \/ BeginRecord
    \/ ValidateAssignee
    \/ EnsureLabel
    \/ CreateIssue
    \/ ReturnBatch

Spec == Init /\ [][Next]_vars

\* ------------------------------------------------------------------ claims

\* The latest call was create_issues_batch and it returned a BatchResult.
Returned == pc = "returned" /\ "value" \in DOMAIN ret

\* The latest call was create_issues_batch and it raised the precondition error.
Refused == ret.call = "create_issues_batch" /\ "raised" \in DOMAIN ret

\* C1: the BatchResult a batch returns has total_issues equal to the number
\* of input records and to successful + failed + skipped, holds exactly one
\* result per record, and its k-th result carries the k-th input record.
C1_BatchTotals ==
    Returned =>
        LET r == ret.value
        IN  /\ r.total_issues = Len(issues)
            /\ r.total_issues = r.successful + r.failed + r.skipped
            /\ Len(r.results) = Len(issues)
            /\ \A k \in 1..Len(issues) : r.results[k].issue_data = issues[k]

\* C1 witness: a returned batch of two records with a mix of outcomes, one
\* skipped and one failed.
C1_Witness ==
    /\ Returned
    /\ Len(issues) = 2
    /\ ret.value.skipped = 1
    /\ ret.value.failed = 1

\* C2: a create_issues_batch call on a client for which no connect() has
\* succeeded ends with the precondition error, returns no BatchResult, issues
\* no remote call and builds neither cache.
C2_RefusedBeforeAnyCall ==
    [][(pc = "idle" /\ ~everConnected /\ ret'.call = "create_issues_batch") =>
          /\ "raised" \in DOMAIN ret'
          /\ ret'.raised = PreconditionError
          /\ "value" \notin DOMAIN ret'
          /\ pc' = "idle"
          /\ calls' = <<>>
          /\ existing_issues_cache' = None
          /\ existing_labels_cache' = None]_vars

\* C2 witness: the batch was refused on a client whose connect() had been
\* tried and had failed.
C2_Witness ==
    /\ Refused
    /\ github # None
    /\ ~everConnected
    /\ calls = <<>>

\* C3 as stated: whenever the latest connect() returned False the client
\* holds no repository.
C3_FailedConnectLeavesNoRepo ==
    (ret.call = "connect" /\ ~ret.value) => repo = None

\* C3 amended: when connect() returned False and no earlier connect() on the
\* client had returned True, the client holds no repository and the batch is
\* refused; a connect() that returns False leaves self.repo as it was.
C3_FailedConnectKeepsRepo ==
    [][(ret'.call = "connect" /\ ~ret'.value) =>
          /\ repo' = repo
          /\ ~everConnected' => (repo' = None /\ NotConnected')]_vars

\* C3 witness: a first connect() has failed and the client holds no repository.
C3_Witness ==
    /\ ret.call = "connect"
    /\ ~ret.value
    /\ ~everConnected
    /\ repo = None


\* The batch is past its precondition and has not returned: one of its steps
\* is what happens next.
BatchStep ==
    \/ CacheExistingIssues
    \/ CacheExistingLabels
    \/ SkipDuplicate
    \/ BeginRecord
    \/ ValidateAssignee
    \/ EnsureLabel
    \/ CreateIssue
    \/ ReturnBatch

\* The positions in the call log of the issue-creation calls for record k.
CreateCallsFor(k) ==
    {n \in DOMAIN calls : calls[n].op = "create_issue" /\ calls[n].rec = k}

\* Some issue-creation call of the batch has raised.
SomeCreateFailed ==
    \E n \in DOMAIN calls : calls[n].op = "create_issue" /\ ~calls[n].ok

StartSnapshot ==
    IF calls[1].ok THEN {Lower(t) : t \in calls[1].arg} ELSE {}

\* C5: a record whose lower-cased title is in the lower-cased open-issue
\* title set snapshotted at the start of the batch is Skipped (not Created,
\* not Failed), whatever the case of its title; a record whose lower-cased
\* title is not in that set is never Skipped.
C5_SkippedIffInSnapshot ==
    \A k \in 1..Len(results) :
        IF Lower(issues[k].title) \in StartSnapshot
        THEN /\ results[k].skipped
             /\ ~results[k].success
             /\ results[k].error_message = None
             /\ CreateCallsFor(k) = {}
        ELSE ~results[k].skipped

\* C5 witness: a record was skipped though no open issue carries its title in
\* the same case, and another record of the same batch was not skipped.
C5_Witness ==
    /\ \E k \in 1..Len(results) :
          results[k].skipped /\ issues[k].title \notin calls[1].arg
    /\ \E k \in 1..Len(results) : ~results[k].skipped

\* Two processed records with one title that is absent from the start
\* snapshot each caused exactly one creation call, and each is Created
\* exactly when the remote accepted its call.
SameTitleBothSubmitted ==
    \A k, l \in 1..Len(results) :
        (k < l /\ issues[k].title = issues[l].title
               /\ Lower(issues[k].title) \notin StartSnapshot) =>
            \A m \in {k, l} :
                /\ Cardinality(CreateCallsFor(m)) = 1
                /\ \A n \in CreateCallsFor(m) :
                      /\ calls[n].arg.title = issues[m].title
                      /\ results[m].success <=> calls[n].ok

C7_LabelCacheReadAfterWrite ==
    \A n \in DOMAIN calls :
        (calls[n].op = "create_label" /\ calls[n].ok) =>
            /\ Lower(calls[n].arg) \in DOMAIN existing_labels_cache[1]
            /\ existing_labels_cache[1][Lower(calls[n].arg)] = calls[n].arg
            /\ \A m \in DOMAIN calls :
                  (m > n /\ calls[m].op = "create_label") =>
                      Lower(calls[m].arg) # Lower(calls[n].arg)

\* C7 witness: the first record's label "ui" was created and its issue
\* creation failed; the second record asked for "UI" and its issue was
\* submitted with the cached "ui", no label being created for it.
C7_Witness ==
    /\ Len(results) = 2
    /\ ~results[1].success
    /\ \E n \in DOMAIN calls :
          calls[n] = Call("create_label", 1, Labelui, TRUE)
    /\ issues[2].labels # <<>>
    /\ issues[2].labels[1] = LabelUI
    /\ \A n \in DOMAIN calls :
          calls[n].rec = 2 => calls[n].op # "create_label"
    /\ \E n \in CreateCallsFor(2) : calls[n].arg.labels[1] = Labelui

\* The step reconciles label j of record i, and the label's lower-cased name
\* is a key of the label cache.
CachedLabelStep ==
    /\ pc = "labels"
    /\ j' = j + 1
    /\ Lower(issues[i].labels[j]) \in DOMAIN existing_labels_cache[1]

\* C8 as stated: a requested label whose lower-cased name is a key of the
\* label cache has its cached canonical name at its own position in the
\* result, with no creation call and the cache unchanged.
C8_CachedLabelAtItsPosition ==
    [][CachedLabelStep =>
          /\ Len(valid_labels') >= j
          /\ valid_labels'[j] = existing_labels_cache[1][Lower(issues[i].labels[j])]
          /\ calls' = calls
          /\ existing_labels_cache' = existing_labels_cache]_vars

\* C8 amended: a requested label whose lower-cased name is a key of the
\* label cache has its cached canonical name appended to the result, right
\* after the names kept for the labels requested before it, with no creation
\* call and the cache unchanged.
C8_CachedLabelAppended ==
    [][CachedLabelStep =>
          /\ valid_labels' = Append(valid_labels,
                 existing_labels_cache[1][Lower(issues[i].labels[j])])
          /\ calls' = calls
          /\ existing_labels_cache' = existing_labels_cache
          /\ remoteLabels' = remoteLabels]_vars

\* C8 witness: "bug" was requested against a cache holding bug -> "Bug": the
\* result holds "Bug" and no label "bug" was created.
C8_Witness ==
    /\ pc = "labels"
    /\ j = 3
    /\ issues[i].labels[2] = Labelbug
    /\ valid_labels # <<>>
    /\ valid_labels[Len(valid_labels)] = LabelBug
    /\ Labelbug \in DOMAIN existing_labels_cache[1]
    /\ existing_labels_cache[1][Labelbug] = LabelBug
    /\ \A n \in DOMAIN calls : calls[n].op # "create_label" \/ calls[n].arg # Labelbug

\* The labels of record k whose creation call failed.
FailedLabels(k) ==
    {calls[n].arg : n \in {m \in DOMAIN calls :
        calls[m].op = "create_label" /\ calls[m].rec = k /\ ~calls[m].ok}}

\* The label-creation calls issued for record k, in order.
LabelCallsFor(k) ==
    LET ForRecord(c) == c.op = "create_label" /\ c.rec = k
    IN  SelectSeq(calls, ForRecord)

\* The requested labels `labels` without the occurrences whose creation call,
\* among the calls `cs` issued for them in order, failed. An occurrence
\* caused the next call of `cs` exactly when that call names it: an
\* occurrence found in the cache causes none, and neither does any later
\* occurrence of the same label.
RECURSIVE RemainingLabels(_, _)
RemainingLabels(labels, cs) ==
    IF labels = <<>> THEN <<>>
    ELSE IF cs # <<>> /\ cs[1].arg = Head(labels)
         THEN (IF cs[1].ok THEN <<Head(labels)>> ELSE <<>>)
                  \o RemainingLabels(Tail(labels), Tail(cs))
         ELSE <<Head(labels)>> \o RemainingLabels(Tail(labels), cs)

\* Every processed record with a failed label creation was submitted for
\* creation once, with a name for each remaining label, in requested order.
RemainingLabelsSubmitted ==
    \A k \in 1..Len(results) :
        LET failedLabels == FailedLabels(k)
            remaining == RemainingLabels(issues[k].labels, LabelCallsFor(k))
            created == CreateCallsFor(k)
        IN  failedLabels # {} =>
              /\ Cardinality(created) = 1
              /\ \A n \in created :
                    [p \in DOMAIN calls[n].arg.labels |-> Lower(calls[n].arg.labels[p])]
                        = [p \in DOMAIN remaining |-> Lower(remaining[p])]

\* The step is a label-creation call that failed.
LabelCreateFailedStep ==
    /\ Len(calls') = Len(calls) + 1
    /\ calls'[Len(calls')].op = "create_label"
    /\ ~calls'[Len(calls')].ok

LookupCallsFor(k) ==
    {n \in DOMAIN calls :
        calls[n].op = "get_collaborator_permission" /\ calls[n].rec = k}

IssueListingFailedStep ==
    /\ pc = "cache_issues"
    /\ Len(calls') = Len(calls) + 1
    /\ ~calls'[Len(calls')].ok

\* The step is the listing of the labels, and it failed.
LabelListingFailedStep ==
    /\ pc = "cache_labels"
    /\ Len(calls') = Len(calls) + 1
    /\ ~calls'[Len(calls')].ok

\* A batch one of whose listings failed has not raised, holds one result per
\* record once it returned, and, when the listing of the open issues failed,
\* has an empty title cache and no skipped record.
DegradedBatchProceeds ==
    (Len(calls) >= 2 /\ (~calls[1].ok \/ ~calls[2].ok)) =>
        /\ "raised" \notin DOMAIN ret
        /\ Returned =>
              /\ Len(ret.value.results) = Len(issues)
              /\ ret.value.total_issues = Len(issues)
        /\ ~calls[1].ok =>
              /\ existing_issues_cache = Some({})
              /\ skipped = 0
              /\ \A k \in 1..Len(results) : ~results[k].skipped

LabelCallsNaming(k, a) ==
    {n \in DOMAIN calls :
        calls[n].op = "create_label" /\ calls[n].rec = k /\ calls[n].arg = a}

\* How many times the label `a` is listed in `labels`.
Occurrences(labels, a) == Cardinality({p \in DOMAIN labels : labels[p] = a})

\* No call follows a failed call of the same operation with the same
\* arguments for the same record.
NoFailedCallRepeated ==
    \A m, n \in DOMAIN calls :
        (m < n /\ ~calls[m].ok /\ calls[m].rec = calls[n].rec
               /\ calls[m].op = calls[n].op) =>
            calls[m].arg # calls[n].arg

\* Each record causes at most one issue-creation call and at most one
\* collaborator lookup, each listing is issued at most once, and a record
\* whose issue creation failed has one result, a Failed one.
OneAttemptPerRecord ==
    /\ Len(results) <= Len(issues)
    /\ pc \in {"record", "assignee", "labels", "returned"} => Len(results) = i - 1
    /\ Cardinality({n \in DOMAIN calls : calls[n].rec = 0}) <= 2
    /\ \A n \in DOMAIN calls : calls[n].rec = 0 => n <= 2
    /\ \A k \in 1..Len(issues) :
          /\ Cardinality(CreateCallsFor(k)) <= 1
          /\ Cardinality(LookupCallsFor(k)) <= 1
          /\ \A n \in CreateCallsFor(k) :
                /\ k <= Len(results)
                /\ ~calls[n].ok =>
                      /\ ~results[k].success
                      /\ ~results[k].skipped
                      /\ results[k].error_message # None
    /\ failed = Cardinality({k \in 1..Len(results) :
                                 ~results[k].success /\ ~results[k].skipped})

Least(S) == CHOOSE x \in S : \A y \in S : x <= y

\* str.strip() over the model's alphabet, in which the only whitespace
\* character is the space.
RECURSIVE Strip(_)
Strip(s) ==
    IF s = <<>> THEN <<>>
    ELSE IF Head(s) = " " THEN Strip(Tail(s))
    ELSE IF s[Len(s)] = " " THEN Strip(SubSeq(s, 1, Len(s) - 1))
    ELSE s

\* str.replace(' ', '-')
ReplaceSpace(s) == [k \in DOMAIN s |-> IF s[k] = " " THEN "-" ELSE s[k]]

\* ProjectField
ProjectField(id, name, data_type, options) ==
    [id |-> id, name |-> name, data_type |-> data_type, options |-> options]

\* ProjectColumn
ProjectColumn(id, name, is_default) ==
    [id |-> id, name |-> name, is_default |-> is_default]

\* ProjectInfo; `number` and `url` are copied from the response and read by
\* nothing, and are left out.
ProjectInfo(id, title, columns, custom_fields) ==
    [id |-> id, title |-> title, columns |-> columns, custom_fields |-> custom_fields]

\* ------------------------------------------------- the remote project data

\* One node of `fields.nodes` in a listing's response.
FieldNode(id, name, dataType, options) ==
    [id |-> id, name |-> name, dataType |-> dataType, options |-> options]

\* One entry of a single-select field's `options`.
OptionNode(id, name) == [id |-> id, name |-> name]

\* A field node of a type none of the query's fragments selects: the
\* response holds an object without `id`, `name` and `dataType` for it.
UnmatchedNode == [unmatched |-> TRUE]

\* One node of `views.nodes`.
ViewNode(id, name) == [id |-> id, name |-> name]

\* One node of `projectsV2.nodes`.
ProjectNode(id, title, fields, views) ==
    [id |-> id, title |-> title, fields |-> fields, views |-> views]

\* A repository project with a built-in field, a Status and a Size
\* single-select field, and a field of every other data type.
NodeRoadmap ==
    ProjectNode(<<"P", "1">>, <<"R", "o", "a", "d", "m", "a", "p">>,
        << FieldNode(<<"F", "0">>, <<"T", "i", "t", "l", "e">>, "TEXT", <<>>),
           FieldNode(<<"F", "1">>, <<"S", "t", "a", "t", "u", "s">>, "SINGLE_SELECT",
                     <<OptionNode(<<"O", "1">>, <<"T", "o", "d", "o">>), OptionNode(<<"O", "2">>, <<"D", "o", "n", "e">>),
                       OptionNode(<<"O", "6">>, <<"N", "e", "w">>)>>),
           FieldNode(<<"F", "2">>, <<"S", "i", "z", "e">>, "SINGLE_SELECT",
                     <<OptionNode(<<"O", "3">>, <<"S">>), OptionNode(<<"O", "4">>, <<"M">>),
                       OptionNode(<<"O", "5">>, <<"L">>)>>),
           FieldNode(<<"F", "3">>, <<"P", "o", "i", "n", "t", "s">>, "NUMBER", <<>>),
           FieldNode(<<"F", "4">>, <<"N", "o", "t", "e", "s">>, "TEXT", <<>>),
           FieldNode(<<"F", "5">>, <<"S", "p", "r", "i", "n", "t">>, "ITERATION", <<>>),
           FieldNode(<<"F", "6">>, <<"D", "u", "e">>, "DATE", <<>>) >>,
        << ViewNode(<<"V", "1">>, <<"B", "o", "a", "r", "d", " ", "v", "i", "e", "w">>) >>)

\* An organization project with an iteration field, which the organization
\* listing's fragments do not select.
NodeOps ==
    ProjectNode(<<"P", "2">>, <<"O", "p", "s">>,
        << FieldNode(<<"F", "7">>, <<"N", "o", "t", "e", "s">>, "TEXT", <<>>), UnmatchedNode >>,
        << >>)

\* An organization project whose Status field is a text field.
NodePlan ==
    ProjectNode(<<"P", "3">>, <<"P", "l", "a", "n">>,
        << FieldNode(<<"F", "8">>, <<"S", "t", "a", "t", "u", "s">>, "TEXT", <<>>) >>,
        << ViewNode(<<"V", "2">>, <<"B", "a", "c", "k", "l", "o", "g">>), ViewNode(<<"V", "3">>, <<"T", "a", "b", "l", "e", " ", "v", "i", "e", "w">>) >>)

\* A user project named like the repository project, in another case.
NodeMine == ProjectNode(<<"P", "4">>, <<"r", "o", "a", "d", "m", "a", "p">>, << >>, << >>)

\* What the three listings answer with: projects in every scope, or none.
RemoteProjectSets ==
    { [repository |-> <<NodeRoadmap>>, organization |-> <<NodeOps, NodePlan>>,
       user |-> <<NodeMine>>],
      [repository |-> <<>>, organization |-> <<>>, user |-> <<>>] }

\* ------------------------------------------------------ _parse_project_data

BuiltInFieldNames == {<<"t", "i", "t", "l", "e">>, <<"a", "s", "s", "i", "g", "n", "e", "e", "s">>, <<"l", "a", "b", "e", "l", "s">>, <<"r", "e", "p", "o", "s", "i", "t", "o", "r", "y">>}

\* The ProjectField built from a field node.
FieldOf(fd) ==
    ProjectField(fd.id, fd.name, fd.dataType,
                 [k \in DOMAIN fd.options |-> fd.options[k].name])

\* custom_fields: the fields of the nodes that are not built-in.
CustomFieldsOf(nodes) ==
    LET Custom(fd) == Lower(fd.name) \notin BuiltInFieldNames
        kept == SelectSeq(nodes, Custom)
    IN  [k \in DOMAIN kept |-> FieldOf(kept[k])]

\* The columns built from the views.
ViewColumns(views) ==
    [k \in DOMAIN views |->
        ProjectColumn(views[k].id, views[k].name,
                      Lower(views[k].name) \in {<<"b", "o", "a", "r", "d", " ", "v", "i", "e", "w">>, <<"t", "a", "b", "l", "e", " ", "v", "i", "e", "w">>})]

\* next((f for f in custom_fields if f.name.lower() == "status"), None)
StatusField(custom_fields) ==
    LET at == {k \in DOMAIN custom_fields : Lower(custom_fields[k].name) = <<"s", "t", "a", "t", "u", "s">>}
    IN  IF at = {} THEN None ELSE Some(custom_fields[Least(at)])

\* f"status-{option.lower().replace(' ', '-')}"
StatusColumnId(option) == <<"s", "t", "a", "t", "u", "s", "-">> \o ReplaceSpace(Lower(option))

\* The columns built from the options, only the first flagged.
StatusColumnsFirstFlagged(custom_fields) ==
    LET status_field == StatusField(custom_fields)
    IN  IF status_field = None THEN <<>>
        ELSE [k \in DOMAIN status_field[1].options |->
                ProjectColumn(StatusColumnId(status_field[1].options[k]),
                              status_field[1].options[k], k = 1)]

\* The columns built from the options of the Status field, if it has any.
StatusColumns(custom_fields) ==
    LET status_field == StatusField(custom_fields)
    IN  IF status_field = None \/ status_field[1].options = <<>>
        THEN <<>>
        ELSE LET options == status_field[1].options
             IN  [k \in DOMAIN options |->
                    ProjectColumn(StatusColumnId(options[k]), options[k],
                        k = 1 \/ Lower(options[k]) \in {<<"t", "o", "d", "o">>, <<"b", "a", "c", "k", "l", "o", "g">>, <<"n", "e", "w">>})]

\* _parse_project_data(project_data): None when reading a node raises (a
\* field node without `name`), else the ProjectInfo.
ParseProjectData(project_data) ==
    IF \E k \in DOMAIN project_data.fields : "name" \notin DOMAIN project_data.fields[k]
    THEN None
    ELSE LET custom_fields == CustomFieldsOf(project_data.fields)
         IN  Some(ProjectInfo(project_data.id, project_data.title,
                     ViewColumns(project_data.views) \o StatusColumns(custom_fields),
                     custom_fields))

\* The loop over a listing's nodes: the projects that parsed, in order.
RECURSIVE ParsedProjects(_)
ParsedProjects(nodes) ==
    IF nodes = <<>> THEN <<>>
    ELSE ParseProjectData(Head(nodes)) \o ParsedProjects(Tail(nodes))

\* ------------------------------------------------------------- get_projects

\* One call of _execute_graphql_query: a query or a mutation, its variables,
\* whether it returned (ok) or raised, and what the caller read from the
\* answer.
GraphCall(kind, name, args, ok, result) ==
    [kind |-> kind, name |-> name, args |-> args, ok |-> ok, result |-> result]

\* self.repo.full_name.split('/')
Owner == "octo"

RepoName == "demo"

\* The names find_project_by_name is called with.
ProjectNames == {<<"R", "O", "A", "D", "M", "A", "P">>, <<"P", "l", "a", "n">>, <<"O", "p", "s">>, <<"Z", "e", "d">>}

\* The calls that read the project list.
DiscoveryCalls ==
    {[op |-> "get_projects"]} \cup
    {[op |-> "find_project_by_name", name |-> n] : n \in ProjectNames}

\* find_project_by_name's loop over the project list.
FindProject(projects, project_name) ==
    LET at == {k \in DOMAIN projects : Lower(projects[k].title) = Lower(project_name)}
    IN  IF at = {} THEN None ELSE Some(projects[Least(at)])

\* What `call` returns once get_projects has answered `projects`.
DiscoveryResult(call, projects) ==
    IF call.op = "get_projects" THEN projects
    ELSE FindProject(projects, call.name)

\* get_projects() with the cache set, alone or inside find_project_by_name:
\* the cached list is used and no query is issued.
GetProjectsCached ==
    /\ ppc = "idle"
    /\ projects_cache # None
    /\ \E call \in DiscoveryCalls :
        /\ pcall' = call
        /\ pret' = [call |-> call.op, value |-> DiscoveryResult(call, projects_cache[1])]
    /\ gql' = <<>>
    /\ UNCHANGED <<projects_cache, remoteProjects, ppc, found, item_id, fi, discovered>>
    /\ UNCHANGED <<issueVars, fnVars, csvVars>>

\* get_projects() with no cache, alone or inside find_project_by_name: the
\* repository's full name is split and the three listings follow.
GetProjectsBegin ==
    /\ ppc = "idle"
    /\ projects_cache = None
    /\ \E call \in DiscoveryCalls :
        /\ pcall' = call
        /\ pret' = [call |-> call.op, running |-> TRUE]
    /\ gql' = <<>>
    /\ found' = <<>>
    /\ ppc' = "repository"
    /\ UNCHANGED <<projects_cache, remoteProjects, item_id, fi, discovered>>
    /\ UNCHANGED <<issueVars, fnVars, csvVars>>

\* A failing listing throwing away the projects found so far.
FoundResetOnFailure(nodes, ok) ==
    IF ok THEN found \o ParsedProjects(nodes) ELSE <<>>

\* `projects` extended with a scope's list: the projects parsed from the
\* listing's nodes, or nothing when the listing raised.
FoundAfterScope(nodes, ok) ==
    found \o (IF ok THEN ParsedProjects(nodes) ELSE <<>>)

\* The listing of one scope, as logged.
ScopeQuery(name, args, nodes, ok) ==
    GraphCall("query", name, args, ok, IF ok THEN nodes ELSE <<>>)

\* _get_repository_projects(owner, repo_name)
GetRepositoryProjects ==
    /\ ppc = "repository"
    /\ \E ok \in BOOLEAN :
        /\ gql' = Append(gql, ScopeQuery("repository", [owner |-> Owner, repo |-> RepoName],
                                         remoteProjects.repository, ok))
        /\ found' = FoundAfterScope(remoteProjects.repository, ok)
    /\ ppc' = "organization"
    /\ UNCHANGED <<projects_cache, remoteProjects, pcall, pret, item_id, fi, discovered>>
    /\ UNCHANGED <<issueVars, fnVars, csvVars>>

\* _get_organization_projects(owner)
GetOrganizationProjects ==
    /\ ppc = "organization"
    /\ \E ok \in BOOLEAN :
        /\ gql' = Append(gql, ScopeQuery("organization", [owner |-> Owner],
                                         remoteProjects.organization, ok))
        /\ found' = FoundAfterScope(remoteProjects.organization, ok)
    /\ ppc' = "user"
    /\ UNCHANGED <<projects_cache, remoteProjects, pcall, pret, item_id, fi, discovered>>
    /\ UNCHANGED <<issueVars, fnVars, csvVars>>

\* The cache left unset when no project was found.
CacheUnlessEmpty(projects) == IF projects = <<>> THEN None ELSE Some(projects)

\* self._projects_cache = projects
CacheAfterDiscovery(projects) == Some(projects)

\* _get_user_projects(owner), after which get_projects caches the list and
\* returns it, and find_project_by_name searches it.
GetUserProjects ==
    /\ ppc = "user"
    /\ \E ok \in BOOLEAN :
        /\ gql' = Append(gql, ScopeQuery("user", [owner |-> Owner],
                                         remoteProjects.user, ok))
        /\ found' = FoundAfterScope(remoteProjects.user, ok)
    /\ projects_cache' = CacheAfterDiscovery(found')
    /\ pret' = [call |-> pcall.op, value |-> DiscoveryResult(pcall, found')]
    /\ discovered' = TRUE
    /\ ppc' = "idle"
    /\ UNCHANGED <<remoteProjects, pcall, item_id, fi>>
    /\ UNCHANGED <<issueVars, fnVars, csvVars>>

\* ----------------------------------------------------- add_issue_to_project

\* issue.node_id
IssueNodeId == <<"N", "1">>

\* The item identifiers the remote may answer an attach with.
ItemIds == {<<"I", "1">>, <<"I", "2">>}

\* The statuses add_issue_to_project is called with: none, an option of the
\* Status field in another case, a name that is no option, the name of a
\* view.
StatusArgs == {None, Some(<<"d", "o", "n", "e">>), Some(<<"N", "o", "p", "e">>), Some(<<"b", "o", "a", "r", "d", " ", "v", "i", "e", "w">>)}

\* The custom_fields dicts add_issue_to_project is called with, as lists of
\* (key, value) in the dict's order: none; a single-select option and a
\* text; an unknown field, a value that is no option, a number that does not
\* parse, an iteration field and a text; a number and a date.
FieldDicts ==
    { << >>,
      << <<<<"s", "i", "z", "e">>, <<"M">>>>, <<<<"N", "o", "t", "e", "s">>, <<"h", "i">>>> >>,
      << <<<<"U", "n", "k", "n", "o", "w", "n">>, <<"x">>>>, <<<<"S", "i", "z", "e">>, <<"X", "L">>>>, <<<<"P", "o", "i", "n", "t", "s">>, <<"a", "b", "c">>>>,
         <<<<"S", "p", "r", "i", "n", "t">>, <<"1">>>>, <<<<"N", "o", "t", "e", "s">>, <<"h", "i">>>> >>,
      << <<<<"P", "o", "i", "n", "t", "s">>, <<"3", "0">>>>, <<<<"D", "u", "e">>, <<"d", "1">>>> >> }

\* How _add_issue_to_project_board can end: the answer holds an item, the
\* answer holds none, the call raises.
AttachOutcomes == {"item", "no_item", "failed"}

\* The attach mutation, as logged.
AttachCall(p, outcome, id) ==
    GraphCall("mutation", "addProjectV2ItemById",
              [projectId |-> p.id, contentId |-> IssueNodeId],
              outcome # "failed", IF outcome = "item" THEN Some(id) ELSE None)

\* The status and field phases entered whatever the attach answered.
PhaseAfterAttachUnchecked(id) == "status"

\* `if not item_id: return False`
PhaseAfterAttach(id) == IF Truthy(id) THEN "status" ELSE "idle"

\* add_issue_to_project(project, issue, status, custom_fields) up to the
\* attach: without an item identifier it returns False.
AddIssueToProject ==
    /\ ppc = "idle"
    /\ projects_cache # None
    /\ \E k \in DOMAIN projects_cache[1], status \in StatusArgs,
          custom_fields \in FieldDicts, outcome \in AttachOutcomes, id \in ItemIds :
        LET p == projects_cache[1][k]
            attach == AttachCall(p, outcome, id)
        IN  /\ pcall' = [op |-> "add_issue_to_project", project |-> p,
                         status |-> status, custom_fields |-> custom_fields]
            /\ gql' = <<attach>>
            /\ item_id' = attach.result
            /\ ppc' = PhaseAfterAttach(attach.result)
            /\ pret' = IF PhaseAfterAttach(attach.result) = "idle"
                       THEN [call |-> "add_issue_to_project", value |-> FALSE]
                       ELSE [call |-> "add_issue_to_project", running |-> TRUE]
    /\ fi' = 0
    /\ UNCHANGED <<projects_cache, remoteProjects, found, discovered>>
    /\ UNCHANGED <<issueVars, fnVars, csvVars>>

\* The named field nodes the remote holds.
RemoteFieldNodes ==
    LET scopes == {remoteProjects.repository, remoteProjects.organization,
                   remoteProjects.user}
        nodes == UNION {{s[k] : k \in DOMAIN s} : s \in scopes}
        fields == UNION {{n.fields[k] : k \in DOMAIN n.fields} : n \in nodes}
    IN  {fd \in fields : "id" \in DOMAIN fd}

\* The `options` the remote answers the option query for `field_id` with.
RemoteFieldOptions(field_id) ==
    LET nodes == {fd \in RemoteFieldNodes : fd.id = field_id}
    IN  IF nodes = {} THEN <<>> ELSE (CHOOSE fd \in nodes : TRUE).options

\* _get_field_option_id(field_id, option_name): the id of the first remote
\* option with that name in any case; None when there is none or the query
\* raised.
FieldOptionId(field_id, option_name, ok) ==
    LET options == RemoteFieldOptions(field_id)
        at == {k \in DOMAIN options : Lower(options[k].name) = Lower(option_name)}
    IN  IF ok /\ at # {} THEN Some(options[Least(at)].id) ELSE None

\* The option query, as logged.
OptionQuery(field_id, option_name, ok) ==
    GraphCall("query", "field_options", [fieldId |-> field_id], ok,
              FieldOptionId(field_id, option_name, ok))

\* The mutation that sets one field of the item, as logged.
FieldMutation(p, field, value, ok) ==
    GraphCall("mutation", "updateProjectV2ItemFieldValue",
              [projectId |-> p.id, itemId |-> item_id, fieldId |-> field.id,
               value |-> value],
              ok, None)

\* next((opt for opt in status_field.options if opt.lower() == status.lower()), None)
StatusOption(status_field, status) ==
    LET at == {k \in DOMAIN status_field.options :
                  Lower(status_field.options[k]) = Lower(status)}
    IN  IF at = {} THEN None ELSE Some(status_field.options[Least(at)])

\* The graph calls _set_project_item_status(project, item_id, status) issues:
\* none without a Status field or a matching option; else the option query
\* and, when it answered an id, the mutation.
StatusCalls(p, status, lookupOk, mutationOk) ==
    LET status_field == StatusField(p.custom_fields)
    IN  IF status_field = None THEN <<>>
        ELSE LET status_option == StatusOption(status_field[1], status)
             IN  IF ~Truthy(status_option) THEN <<>>
                 ELSE LET query == OptionQuery(status_field[1].id, status_option[1], lookupOk)
                      IN  IF ~Truthy(query.result) THEN <<query>>
                          ELSE <<query, FieldMutation(p, status_field[1],
                                     [singleSelectOptionId |-> query.result[1]], mutationOk)>>

\* `if status: self._set_project_item_status(...)`
SetProjectItemStatus ==
    /\ ppc = "status"
    /\ IF ~Truthy(pcall.status)
       THEN gql' = gql
       ELSE \E lookupOk \in BOOLEAN, mutationOk \in BOOLEAN :
               gql' = gql \o StatusCalls(pcall.project, pcall.status[1], lookupOk, mutationOk)
    /\ ppc' = "fields"
    /\ fi' = 1
    /\ UNCHANGED <<projects_cache, remoteProjects, pcall, pret, found, item_id, discovered>>
    /\ UNCHANGED <<issueVars, fnVars, csvVars>>

Digits == <<"0", "1", "2", "3", "4", "5", "6", "7", "8", "9">>

\* The value of a string of decimal digits.
RECURSIVE DigitsValue(_)
DigitsValue(s) ==
    IF s = <<>> THEN 0
    ELSE 10 * DigitsValue(SubSeq(s, 1, Len(s) - 1))
           + (CHOOSE d \in 0..9 : Digits[d + 1] = s[Len(s)])

\* float(value) for a string of the model's alphabet (letters, digits,
\* spaces): surrounding whitespace is ignored, a string of digits is its
\* value, anything else raises ValueError (None).
FloatOf(value) ==
    LET s == Strip(value)
    IN  IF s # <<>> /\ \A k \in DOMAIN s : \E d \in DOMAIN Digits : Digits[d] = s[k]
        THEN Some(DigitsValue(s))
        ELSE None

\* next((f for f in project.custom_fields if f.name.lower() == field_name.lower()), None)
FieldNamed(custom_fields, field_name) ==
    LET at == {k \in DOMAIN custom_fields :
                  Lower(custom_fields[k].name) = Lower(field_name)}
    IN  IF at = {} THEN None ELSE Some(custom_fields[Least(at)])

\* Every field sent its value as a text, whatever its type.
SingleFieldCallsAsText(p, field, value, lookupOk, mutationOk) ==
    <<FieldMutation(p, field, [text |-> value], mutationOk)>>

\* The graph calls _set_single_custom_field(project, item_id, field, value)
\* issues: by the field's type, the option query and, when it answered an
\* id, the mutation; the mutation with the text; the mutation with the
\* number, none when the value does not parse; the mutation with the date;
\* none for any other type.
SingleFieldCalls(p, field, value, lookupOk, mutationOk) ==
    IF field.data_type = "SINGLE_SELECT"
    THEN LET query == OptionQuery(field.id, value, lookupOk)
         IN  IF ~Truthy(query.result) THEN <<query>>
             ELSE <<query, FieldMutation(p, field,
                        [singleSelectOptionId |-> query.result[1]], mutationOk)>>
    ELSE IF field.data_type = "TEXT"
    THEN <<FieldMutation(p, field, [text |-> value], mutationOk)>>
    ELSE IF field.data_type = "NUMBER"
    THEN IF FloatOf(value) = None THEN <<>>
         ELSE <<FieldMutation(p, field, [number |-> FloatOf(value)[1]], mutationOk)>>
    ELSE IF field.data_type = "DATE"
    THEN <<FieldMutation(p, field, [date |-> value], mutationOk)>>
    ELSE <<>>

\* The loop stopping at the first field that is not set.
NextFieldStoppingOnFailure(n, issued) ==
    IF issued # <<>> /\ issued[Len(issued)].kind = "mutation" /\ issued[Len(issued)].ok
    THEN fi + 1
    ELSE n + 1

\* The loop of _set_project_item_custom_fields goes on to the next field
\* whatever calls `issued` the current one caused; `n` is the number of
\* fields.
NextField(n, issued) == fi + 1

\* One iteration of _set_project_item_custom_fields's loop: a key that names
\* no field of the project is skipped, else _set_single_custom_field.
SetProjectItemCustomField ==
    /\ ppc = "fields"
    /\ fi <= Len(pcall.custom_fields)
    /\ LET field_name == pcall.custom_fields[fi][1]
           field_value == pcall.custom_fields[fi][2]
           field == FieldNamed(pcall.project.custom_fields, field_name)
       IN  IF field = None
           THEN /\ gql' = gql
                /\ fi' = NextField(Len(pcall.custom_fields), <<>>)
           ELSE \E lookupOk \in BOOLEAN, mutationOk \in BOOLEAN :
                  LET issued == SingleFieldCalls(pcall.project, field[1], field_value,
                                                 lookupOk, mutationOk)
                  IN  /\ gql' = gql \o issued
                      /\ fi' = NextField(Len(pcall.custom_fields), issued)
    /\ UNCHANGED <<projects_cache, remoteProjects, ppc, pcall, pret, found, item_id,
                   discovered>>
    /\ UNCHANGED <<issueVars, fnVars, csvVars>>

\* True only when every call after the attach succeeded.
AddIssueResultIfAllSet(issued) ==
    \A n \in 2..Len(issued) : issued[n].ok

\* `return True`, whatever the calls `issued` after the attach came to.
AddIssueResult(issued) == TRUE

\* The loop is over: add_issue_to_project returns True.
AddIssueReturn ==
    /\ ppc = "fields"
    /\ fi > Len(pcall.custom_fields)
    /\ pret' = [call |-> "add_issue_to_project", value |-> AddIssueResult(gql)]
    /\ ppc' = "idle"
    /\ UNCHANGED <<projects_cache, remoteProjects, pcall, gql, found, item_id, fi,
                   discovered>>
    /\ UNCHANGED <<issueVars, fnVars, csvVars>>

\* __init__ of GitHubProjectsClient, against either remote.
ProjectsInit ==
    /\ IssueClientUnused
    /\ FieldsUnused
    /\ CsvUnused
    /\ projects_cache = None
    /\ remoteProjects \in RemoteProjectSets
    /\ ppc = "idle"
    /\ pcall = [op |-> "none"]
    /\ pret = [call |-> "none"]
    /\ gql = <<>>
    /\ found = <<>>
    /\ item_id = None
    /\ fi = 0
    /\ discovered = FALSE

ProjectsNext ==
    \/ GetProjectsCached
    \/ GetProjectsBegin
    \/ GetRepositoryProjects
    \/ GetOrganizationProjects
    \/ GetUserProjects
    \/ AddIssueToProject
    \/ SetProjectItemStatus
    \/ SetProjectItemCustomField
    \/ AddIssueReturn

SpecProjects == ProjectsInit /\ [][ProjectsNext]_vars

\* ------------------------------------------- claims on GitHubProjectsClient

\* The three scopes, in the order get_projects queries them.
ScopeNames == <<"repository", "organization", "user">>

\* The latest call read the project list.
DiscoveryCalled == pcall.op \in {"get_projects", "find_project_by_name"}

\* The latest call read the project list by querying, and has returned.
DiscoveryRan == DiscoveryCalled /\ ppc = "idle" /\ gql # <<>>

\* The identifiers of a list of projects or of project nodes, in order.
IdsOf(list) == [k \in DOMAIN list |-> list[k].id]

\* A call that reads the project list without a cache starts the listings, a
\* listing is followed by the next scope's whether it failed or not, and a
\* discovery that ran issued the three listings in the order repository,
\* organization, user, each answered with the scope's nodes unless it
\* failed.
ThreeScopesQueried ==
    /\ (DiscoveryCalled /\ ppc # "idle") =>
          /\ ppc = ScopeNames[Len(gql) + 1]
          /\ projects_cache = None
    /\ DiscoveryCalled =>
          /\ Len(gql) <= 3
          /\ \A k \in DOMAIN gql :
                /\ gql[k].kind = "query"
                /\ gql[k].name = ScopeNames[k]
                /\ gql[k].result = IF gql[k].ok THEN remoteProjects[ScopeNames[k]]
                                   ELSE <<>>
    /\ DiscoveryRan =>
          /\ Len(gql) = 3
          /\ projects_cache # None
    /\ (DiscoveryCalled /\ ppc = "idle" /\ gql = <<>>) => discovered

\* C13 as stated: the first call of the discovery issues the three scoped
\* listings whichever of them fail, and its result is exactly the projects
\* of the scopes whose listing succeeded, in the order repository,
\* organization, user.
C13_ResultIsSucceededScopes ==
    /\ ThreeScopesQueried
    /\ DiscoveryRan =>
          IdsOf(projects_cache[1]) =
              IdsOf(gql[1].result \o gql[2].result \o gql[3].result)

\* C13 amended: the first call of the discovery issues the three scoped
\* listings whichever of them fail, and its result is exactly the projects
\* of the scopes whose listing succeeded that could be parsed, in the order
\* repository, organization, user; a project whose data the parser raises on
\* is left out.
C13_ResultIsParsedSucceededScopes ==
    /\ ThreeScopesQueried
    /\ DiscoveryRan =>
          /\ projects_cache[1] =
                 ParsedProjects(gql[1].result) \o ParsedProjects(gql[2].result)
                     \o ParsedProjects(gql[3].result)
          /\ pret.value = DiscoveryResult(pcall, projects_cache[1])

\* C13 witness: the repository listing failed and the two others succeeded;
\* the result holds the organization project that parsed and the user
\* project, and not the organization project that did not parse.
C13_Witness ==
    /\ DiscoveryRan
    /\ Len(gql) = 3
    /\ ~gql[1].ok
    /\ gql[2].ok
    /\ gql[3].ok
    /\ remoteProjects.organization = <<NodeOps, NodePlan>>
    /\ IdsOf(projects_cache[1]) = <<NodePlan.id, NodeMine.id>>

\* No listing is among the graph calls of the step's call.
NoListingIssued ==
    \A k \in DOMAIN gql' : gql'[k].name \notin {"repository", "organization", "user"}

\* Once a discovery has returned the cache holds a list, and a returned call
\* that read the project list returned that list, or the search in it.
CachedListReturned ==
    discovered =>
        /\ projects_cache # None
        /\ (DiscoveryCalled /\ ppc = "idle") =>
              pret.value = DiscoveryResult(pcall, projects_cache[1])

\* C14: once a get_projects call has returned, the cached list never changes
\* and no later call issues a listing: every later get_projects returns the
\* list the first call returned, also when that list is empty or a scope had
\* failed, and find_project_by_name searches that list.
C14_DiscoveryCached ==
    /\ [][discovered => (projects_cache' = projects_cache /\ NoListingIssued)]_vars
    /\ []CachedListReturned

\* C14 witness: the remote holds projects but every listing of the first
\* call failed; a later get_projects returned the cached empty list and
\* issued no query.
C14_Witness ==
    /\ discovered
    /\ remoteProjects.repository # <<>>
    /\ projects_cache = Some(<<>>)
    /\ ppc = "idle"
    /\ pcall.op = "get_projects"
    /\ gql = <<>>
    /\ pret.value = <<>>

\* The latest call is add_issue_to_project.
AssignCalled == pcall.op = "add_issue_to_project"

\* C17: the first graph call of add_issue_to_project is the attach; when it
\* raised or answered no item identifier the call has returned False and
\* issued nothing else; every option query and every field mutation comes
\* after an attach that answered an item identifier, and every mutation
\* carries that identifier.
C17_AttachFirst ==
    AssignCalled =>
        /\ gql # <<>>
        /\ gql[1].name = "addProjectV2ItemById"
        /\ gql[1].args = [projectId |-> pcall.project.id, contentId |-> IssueNodeId]
        /\ ~Truthy(gql[1].result) =>
              /\ Len(gql) = 1
              /\ ppc = "idle"
              /\ pret = [call |-> "add_issue_to_project", value |-> FALSE]
        /\ \A k \in 2..Len(gql) :
              /\ gql[1].ok
              /\ Truthy(gql[1].result)
              /\ gql[k].name \in {"field_options", "updateProjectV2ItemFieldValue"}
              /\ gql[k].kind = "mutation" => gql[k].args.itemId = gql[1].result

\* C17 witness: an assignment with a status and custom fields whose attach
\* raised: it returned False after that one call.
C17_Witness ==
    /\ AssignCalled
    /\ ppc = "idle"
    /\ ~gql[1].ok
    /\ pcall.status = Some(<<"d", "o", "n", "e">>)
    /\ Len(pcall.custom_fields) = 5
    /\ pret = [call |-> "add_issue_to_project", value |-> FALSE]
    /\ Len(gql) = 1

\* The positions in the log of the mutations that set the field `field_id`.
MutationsFor(field_id) ==
    {n \in DOMAIN gql :
        /\ gql[n].name = "updateProjectV2ItemFieldValue"
        /\ gql[n].args.fieldId = field_id}

\* The positions in the log of the option queries for the field `field_id`.
OptionQueriesFor(field_id) ==
    {n \in DOMAIN gql :
        gql[n].name = "field_options" /\ gql[n].args.fieldId = field_id}

\* The value the mutation of `field` carries for `value`, once the option
\* query (for a single-select field) answered `option_id`; None when the
\* field cannot be set.
ResolvedValue(field, value, option_id) ==
    IF field.data_type = "SINGLE_SELECT"
    THEN (IF Truthy(option_id) THEN Some([singleSelectOptionId |-> option_id[1]])
          ELSE None)
    ELSE IF field.data_type = "TEXT" THEN Some([text |-> value])
    ELSE IF field.data_type = "NUMBER"
    THEN (IF FloatOf(value) = None THEN None
          ELSE Some([number |-> FloatOf(value)[1]]))
    ELSE IF field.data_type = "DATE" THEN Some([date |-> value])
    ELSE None

\* The custom-field entry at position k was handled on its own: a key that
\* names no field caused no call; a single-select field caused one option
\* query; and the field was sent one mutation, with its resolved value, if
\* it has one, and none if it has not.
EntryAttemptedOnce(k) ==
    LET entry == pcall.custom_fields[k]
        field == FieldNamed(pcall.project.custom_fields, entry[1])
    IN  field # None =>
          LET queries == OptionQueriesFor(field[1].id)
              option_id == IF queries = {} THEN None ELSE gql[Least(queries)].result
              resolved == ResolvedValue(field[1], entry[2], option_id)
          IN  /\ Cardinality(queries) =
                     IF field[1].data_type = "SINGLE_SELECT" THEN 1 ELSE 0
              /\ Cardinality(MutationsFor(field[1].id)) =
                     IF resolved = None THEN 0 ELSE 1
              /\ \A n \in MutationsFor(field[1].id) : gql[n].args.value = resolved[1]

\* An assignment that attached the issue has returned True with every
\* custom-field entry handled on its own.
EveryFieldAttempted ==
    (AssignCalled /\ ppc = "idle" /\ Truthy(gql[1].result)) =>
        /\ pret = [call |-> "add_issue_to_project", value |-> TRUE]
        /\ \A k \in DOMAIN pcall.custom_fields : EntryAttemptedOnce(k)

\* C18: after a successful attach the status phase always hands over to the
\* custom-field phase, whether the status was applied, not resolved or
\* failed; the custom-field phase goes from each field to the next whatever
\* happened to it (unknown, unresolvable, unparsable, mutation failed); and
\* when the call returns every custom field that could be resolved was sent
\* exactly one mutation.
C18_FieldFailuresIsolated ==
    /\ [][ppc = "status" => (ppc' = "fields" /\ fi' = 1)]_vars
    /\ [][(ppc = "fields" /\ fi <= Len(pcall.custom_fields)) =>
             (ppc' = "fields" /\ fi' = fi + 1 /\ pret' = pret)]_vars
    /\ []EveryFieldAttempted

\* C18 witness: the status named no option; of the five custom fields the
\* first is unknown, the second has no such option, the third does not
\* parse, the fourth is of an unsupported type and the fifth, a text, was
\* sent its mutation; the call returned True.
C18_Witness ==
    /\ AssignCalled
    /\ ppc = "idle"
    /\ pret = [call |-> "add_issue_to_project", value |-> TRUE]
    /\ pcall.status = Some(<<"N", "o", "p", "e">>)
    /\ pcall.project.id = NodeRoadmap.id
    /\ Len(pcall.custom_fields) = 5
    /\ Len(gql) = 3
    /\ gql[2].name = "field_options"
    /\ gql[2].result = None
    /\ gql[3].name = "updateProjectV2ItemFieldValue"
    /\ gql[3].args.value = [text |-> <<"h", "i">>]

\* ============================== the pure functions of GitHubProjectsClient

\* The greatest element of a non-empty set of integers.
Greatest(S) == CHOOSE x \in S : \A y \in S : x >= y

\* The columns a project's column list is drawn from: a column with a
\* heuristic default name and no flag, a flagged view, a column with neither,
\* and a flagged column with an ordinary name.
ColumnChoices ==
    { ProjectColumn(<<"V", "2">>, <<"B", "a", "c", "k", "l", "o", "g">>, FALSE),
      ProjectColumn(<<"V", "1">>, <<"B", "o", "a", "r", "d", " ", "v", "i", "e", "w">>, TRUE),
      ProjectColumn(<<"s", "t", "a", "t", "u", "s", "-", "d", "o", "n", "e">>, <<"D", "o", "n", "e">>, FALSE),
      ProjectColumn(<<"s", "t", "a", "t", "u", "s", "-", "d", "o", "i", "n", "g">>, <<"D", "o", "i", "n", "g">>, TRUE) }

\* Every list of at most MaxColumns columns.
ColumnLists == UNION {[1..n -> ColumnChoices] : n \in 0..MaxColumns}

\* The custom-field lists of a project: none; a Status and a Size
\* single-select field, a text field and a text field named State; a
\* single-select field without options and a text field.
FieldLists ==
    { << >>,
      << ProjectField(<<"F", "1">>, <<"S", "t", "a", "t", "u", "s">>, "SINGLE_SELECT", <<<<"T", "o", "d", "o">>, <<"D", "o", "n", "e">>>>),
         ProjectField(<<"F", "2">>, <<"S", "i", "z", "e">>, "SINGLE_SELECT", <<<<"S">>, <<"M">>, <<"L">>>>),
         ProjectField(<<"F", "4">>, <<"N", "o", "t", "e", "s">>, "TEXT", <<>>),
         ProjectField(<<"F", "9">>, <<"S", "t", "a", "t", "e">>, "TEXT", <<>>) >>,
      << ProjectField(<<"F", "1", "0">>, <<"T", "e", "a", "m">>, "SINGLE_SELECT", <<>>),
         ProjectField(<<"F", "4">>, <<"N", "o", "t", "e", "s">>, "TEXT", <<>>) >> }

\* The projects the functions are applied to.
ProjectInputs ==
    {ProjectInfo(<<"P", "1">>, <<"R", "o", "a", "d", "m", "a", "p">>, columns, custom_fields) :
        columns \in ColumnLists, custom_fields \in FieldLists}

\* --------------------------------------------------------- get_default_status

DefaultNames == {<<"b", "a", "c", "k", "l", "o", "g">>, <<"t", "o", "d", "o">>, <<"t", "o", " ", "d", "o">>, <<"n", "e", "w">>, <<"i", "n", "b", "o", "x">>, <<"t", "r", "i", "a", "g", "e">>}

\* get_default_status(project): the name of the first column that is flagged
\* or has a default name; else of the first column; else None.
GetDefaultStatus(p) ==
    LET at == {k \in DOMAIN p.columns :
                  p.columns[k].is_default \/ Lower(p.columns[k].name) \in DefaultNames}
    IN  IF at # {} THEN Some(p.columns[Least(at)].name)
        ELSE IF p.columns # <<>> THEN Some(p.columns[1].name)
        ELSE None

\* get_default_status applied to the project. (The functions are pure: each
\* behaviour applies one of them once.)
ApplyGetDefaultStatus ==
    /\ fret.call = "none"
    /\ fret' = [call |-> "get_default_status", value |-> GetDefaultStatus(project)]
    /\ UNCHANGED project
    /\ UNCHANGED <<issueVars, projVars, csvVars>>

\* ---------------------------------------------------- validate_project_fields

\* The statuses validate_project_fields is called with: none, the empty
\* string, a column name in another case, a name that is no column.
ValidateStatusArgs == {None, Some(<<>>), Some(<<"d", "o", "n", "e">>), Some(<<"N", "o", "p", "e">>)}

\* The custom_fields dicts validate_project_fields is called with, as lists
\* of (key, value) in the dict's order.
ValidateDicts ==
    { << >>,
      << <<<<"S", "i", "z", "e">>, <<"X", "L">>>> >>,
      << <<<<"s", "i", "z", "e">>, <<"m">>>>, <<<<"N", "o", "t", "e", "s">>, <<"h", "i">>>> >>,
      << <<<<"U", "n", "k", "n", "o", "w", "n">>, <<"x">>>>, <<<<"S", "i", "z", "e">>, <<"X", "L">>>>, <<<<"T", "e", "a", "m">>, <<"a">>>> >> }

\* The names of a list of columns or fields, in order.
NamesOf(list) == [k \in DOMAIN list |-> list[k].name]

\* An entry of the error list: what it is about, the offending string it
\* cites, and the available names it lists.
ValidationError(kind, cited, available) ==
    [kind |-> kind, cited |-> cited, available |-> available]

\* The error for the status, if any.
StatusErrors(p, status) ==
    IF /\ Truthy(status)
       /\ \A k \in DOMAIN p.columns : Lower(p.columns[k].name) # Lower(status[1])
    THEN <<ValidationError("status", status[1], NamesOf(p.columns))>>
    ELSE <<>>

\* valid_fields[field_name_lower]: of the fields with that lower-cased name,
\* the dict keeps the last.
ValidField(p, field_name) ==
    LET at == {k \in DOMAIN p.custom_fields :
                  Lower(p.custom_fields[k].name) = Lower(field_name)}
    IN  IF at = {} THEN None ELSE Some(p.custom_fields[Greatest(at)])

\* The error for one entry of custom_fields, if any: the key names no field,
\* or the field is a single-select field with options and the value is none
\* of them.
EntryErrors(p, field_name, value) ==
    LET field == ValidField(p, field_name)
    IN  IF field = None
        THEN <<ValidationError("field", field_name, NamesOf(p.custom_fields))>>
        ELSE IF /\ field[1].data_type = "SINGLE_SELECT"
                /\ field[1].options # <<>>
                /\ \A k \in DOMAIN field[1].options :
                      Lower(field[1].options[k]) # Lower(value)
        THEN <<ValidationError("value", value, field[1].options)>>
        ELSE <<>>

\* The errors for the entries of custom_fields, in the dict's order.
RECURSIVE FieldErrors(_, _)
FieldErrors(p, custom_fields) ==
    IF custom_fields = <<>> THEN <<>>
    ELSE EntryErrors(p, Head(custom_fields)[1], Head(custom_fields)[2])
             \o FieldErrors(p, Tail(custom_fields))

\* The validation stopping at its first error.
ValidateFirstErrorOnly(p, status, custom_fields) ==
    LET errors == StatusErrors(p, status) \o FieldErrors(p, custom_fields)
        first == IF errors = <<>> THEN <<>> ELSE <<errors[1]>>
    IN  [ok |-> first = <<>>, errors |-> first]

\* validate_project_fields(project, status, custom_fields)
ValidateProjectFields(p, status, custom_fields) ==
    LET errors == StatusErrors(p, status) \o FieldErrors(p, custom_fields)
    IN  [ok |-> Len(errors) = 0, errors |-> errors]

\* validate_project_fields applied to the project.
ApplyValidateProjectFields ==
    /\ fret.call = "none"
    /\ \E status \in ValidateStatusArgs, custom_fields \in ValidateDicts :
          fret' = [call |-> "validate_project_fields", status |-> status,
                   custom_fields |-> custom_fields,
                   value |-> ValidateProjectFields(project, status, custom_fields)]
    /\ UNCHANGED project
    /\ UNCHANGED <<issueVars, projVars, csvVars>>

\* ------------------------------------------ parse_project_fields_from_csv_row

\* The cells a row is drawn from, as (column name, value): a state column, a
\* status column with spaces around its value, a standard column, a column
\* naming the Notes field in upper case, the same in lower case with a blank
\* value, and a column naming the Size field with an empty value.
RowCells ==
    { <<<<"s", "t", "a", "t", "e">>, <<"O", "p", "e", "n">>>>,
      <<<<"s", "t", "a", "t", "u", "s">>, <<" ", "D", "o", "n", "e", " ">>>>,
      <<<<"T", "i", "t", "l", "e">>, <<"F", "i", "x">>>>,
      <<<<"N", "O", "T", "E", "S">>, <<" ", "h", "i", " ">>>>,
      <<<<"n", "o", "t", "e", "s">>, <<" ", " ">>>>,
      <<<<"S", "i", "z", "e">>, <<>>>> }

\* Every row of at most MaxRowCells cells with distinct column names, in the
\* dict's order.
RowInputs ==
    {row \in UNION {[1..n -> RowCells] : n \in 0..MaxRowCells} :
        \A a, b \in DOMAIN row : a # b => row[a][1] # row[b][1]}

StatusKeys == <<<<"s", "t", "a", "t", "u", "s">>, <<"c", "o", "l", "u", "m", "n">>, <<"p", "r", "o", "j", "e", "c", "t", "_", "s", "t", "a", "t", "u", "s">>, <<"s", "t", "a", "t", "e">>>>

\* The column names the custom-field loop passes over.
SkippedKeys ==
    {<<"t", "i", "t", "l", "e">>, <<"d", "e", "s", "c", "r", "i", "p", "t", "i", "o", "n">>, <<"a", "s", "s", "i", "g", "n", "e", "e">>, <<"l", "a", "b", "e", "l", "s">>,
     <<"s", "t", "a", "t", "u", "s">>, <<"c", "o", "l", "u", "m", "n">>, <<"p", "r", "o", "j", "e", "c", "t", "_", "s", "t", "a", "t", "u", "s">>}

\* row_data[key]
RowValue(row, key) == row[CHOOSE c \in DOMAIN row : row[c][1] = key][2]

\* The status: the stripped value of the first status key that is a column of
\* the row with a non-empty value.
RowStatus(row) ==
    LET present == {k \in DOMAIN StatusKeys :
                       \E c \in DOMAIN row : row[c][1] = StatusKeys[k] /\ row[c][2] # <<>>}
    IN  IF present = {} THEN None
        ELSE Some(Strip(RowValue(row, StatusKeys[Least(present)])))

\* dict[k] = v
DictPut(dict, k, v) ==
    [x \in DOMAIN dict \cup {k} |-> IF x = k THEN v ELSE dict[x]]

\* The custom fields: for each cell in order, unless its lower-cased column
\* name is passed over or its value is blank, and if the name is a project
\* field's in any case, the stripped value under the field's own name.
RECURSIVE RowCustomFields(_, _)
RowCustomFields(p, row) ==
    IF row = <<>> THEN EmptyDict
    ELSE LET before == RowCustomFields(p, SubSeq(row, 1, Len(row) - 1))
             csv_key == row[Len(row)][1]
             csv_value == row[Len(row)][2]
             field == ValidField(p, csv_key)
         IN  IF \/ Lower(csv_key) \in SkippedKeys
                \/ Strip(csv_value) = <<>>
                \/ field = None
             THEN before
             ELSE DictPut(before, field[1].name, Strip(csv_value))

\* parse_project_fields_from_csv_row(project, row_data)
ParseProjectFieldsFromCsvRow(p, row) ==
    [status |-> RowStatus(row), custom_fields |-> RowCustomFields(p, row)]

\* parse_project_fields_from_csv_row applied to the project.
ApplyParseProjectFieldsFromCsvRow ==
    /\ fret.call = "none"
    /\ \E row \in RowInputs :
          fret' = [call |-> "parse_project_fields_from_csv_row", row_data |-> row,
                   value |-> ParseProjectFieldsFromCsvRow(project, row)]
    /\ UNCHANGED project
    /\ UNCHANGED <<issueVars, projVars, csvVars>>

\* A project, and nothing applied to it yet.
FieldsInit ==
    /\ IssueClientUnused
    /\ ProjectsClientUnused
    /\ CsvUnused
    /\ project \in ProjectInputs
    /\ fret = [call |-> "none"]

FieldsNext ==
    \/ ApplyGetDefaultStatus
    \/ ApplyValidateProjectFields
    \/ ApplyParseProjectFieldsFromCsvRow

SpecFields == FieldsInit /\ [][FieldsNext]_vars

\* ----------------------------------------------- claims on the pure functions

\* The positions of the flagged columns.
FlaggedColumns == {k \in DOMAIN project.columns : project.columns[k].is_default}

\* The positions of the columns with a heuristic default name.
DefaultNamedColumns ==
    {k \in DOMAIN project.columns : Lower(project.columns[k].name) \in DefaultNames}

\* C15: get_default_status returns the first flagged column if any column is
\* flagged; only when none is flagged, the first column with a heuristic
\* default name; else the first column; None only without columns.
C15_StrictPriority ==
    fret.call = "get_default_status" =>
        fret.value =
            IF FlaggedColumns # {}
            THEN Some(project.columns[Least(FlaggedColumns)].name)
            ELSE IF DefaultNamedColumns # {}
            THEN Some(project.columns[Least(DefaultNamedColumns)].name)
            ELSE IF project.columns # <<>> THEN Some(project.columns[1].name)
            ELSE None

\* The latest application is validate_project_fields.
Validated == fret.call = "validate_project_fields"

\* The given status matches no column name in any case.
StatusViolation ==
    /\ Truthy(fret.status)
    /\ \A k \in DOMAIN project.columns :
          Lower(project.columns[k].name) # Lower(fret.status[1])

\* The key of the entry at position e matches no declared field name in any
\* case.
UnknownKey(e) ==
    \A k \in DOMAIN project.custom_fields :
        Lower(project.custom_fields[k].name) # Lower(fret.custom_fields[e][1])

\* The entry at position e names a single-select field, and its value matches
\* none of the field's declared options in any case.
NoSuchOption(e) ==
    \E k \in DOMAIN project.custom_fields :
        LET field == project.custom_fields[k]
        IN  /\ Lower(field.name) = Lower(fret.custom_fields[e][1])
            /\ field.data_type = "SINGLE_SELECT"
            /\ \A o \in DOMAIN field.options :
                  Lower(field.options[o]) # Lower(fret.custom_fields[e][2])

\* The entry at position e names a single-select field that declares no
\* option.
NoOptionDeclared(e) ==
    \E k \in DOMAIN project.custom_fields :
        LET field == project.custom_fields[k]
        IN  /\ Lower(field.name) = Lower(fret.custom_fields[e][1])
            /\ field.data_type = "SINGLE_SELECT"
            /\ field.options = <<>>

\* What the errors cite, in order.
CitedBy(errors) == [k \in DOMAIN errors |-> <<errors[k].kind, errors[k].cited>>]

\* The violations among the entries from position e on, in order, as what
\* their errors cite; `exempt` tells whether a single-select field without
\* options accepts any value.
RECURSIVE EntryViolations(_, _)
EntryViolations(e, exempt) ==
    IF e > Len(fret.custom_fields) THEN <<>>
    ELSE (IF UnknownKey(e) THEN << <<"field", fret.custom_fields[e][1]>> >>
          ELSE IF NoSuchOption(e) /\ ~(exempt /\ NoOptionDeclared(e))
          THEN << <<"value", fret.custom_fields[e][2]>> >>
          ELSE << >>)
         \o EntryViolations(e + 1, exempt)

\* All violations, the status first.
Violations(exempt) ==
    (IF StatusViolation THEN << <<"status", fret.status[1]>> >> ELSE << >>)
        \o EntryViolations(1, exempt)

\* C16 as stated: ok is true exactly when there is no violation (a given
\* status that matches no column, a key that matches no field, a value of a
\* single-select field that matches none of its declared options), and the
\* error list has one entry per violation.
C16_OneErrorPerViolation ==
    Validated =>
        /\ fret.value.ok <=> Violations(FALSE) = <<>>
        /\ CitedBy(fret.value.errors) = Violations(FALSE)

\* C16 amended: as stated, except that a single-select field that declares
\* no option accepts every value.
C16_OneErrorPerCheckedViolation ==
    Validated =>
        /\ fret.value.ok <=> Violations(TRUE) = <<>>
        /\ CitedBy(fret.value.errors) = Violations(TRUE)

\* C16 witness: a status that names the column Done in another case and
\* Size = XL against the options S, M, L: not ok, with the one error citing
\* XL.
C16_Witness ==
    /\ Validated
    /\ fret.status = Some(<<"d", "o", "n", "e">>)
    /\ \E k \in DOMAIN project.columns : project.columns[k].name = <<"D", "o", "n", "e">>
    /\ fret.custom_fields = << <<<<"S", "i", "z", "e">>, <<"X", "L">>>> >>
    /\ \E k \in DOMAIN project.custom_fields :
          /\ project.custom_fields[k].name = <<"S", "i", "z", "e">>
          /\ project.custom_fields[k].options = <<<<"S">>, <<"M">>, <<"L">>>>
    /\ ~fret.value.ok
    /\ CitedBy(fret.value.errors) = << <<"value", <<"X", "L">>>> >>

\* The latest application is parse_project_fields_from_csv_row.
RowParsed == fret.call = "parse_project_fields_from_csv_row"

\* The four standard columns and the status-key aliases.
ReservedColumns ==
    {<<"t", "i", "t", "l", "e">>, <<"d", "e", "s", "c", "r", "i", "p", "t", "i", "o", "n">>, <<"a", "s", "s", "i", "g", "n", "e", "e">>, <<"l", "a", "b", "e", "l", "s">>,
     <<"s", "t", "a", "t", "u", "s">>, <<"c", "o", "l", "u", "m", "n">>, <<"p", "r", "o", "j", "e", "c", "t", "_", "s", "t", "a", "t", "u", "s">>, <<"s", "t", "a", "t", "e">>}

\* C19: no column of the row whose lower-cased name is a standard column or
\* a status-key alias is returned as a custom field; every returned key is
\* the name of a declared field that some column of the row matches in any
\* case, and its value is that column's non-empty stripped value.
C19_ReservedColumnsNeverReturned ==
    RowParsed =>
        \A name \in DOMAIN fret.value.custom_fields :
            /\ Lower(name) \notin ReservedColumns
            /\ \E k \in DOMAIN project.custom_fields :
                  project.custom_fields[k].name = name
            /\ \E c \in DOMAIN fret.row_data :
                  /\ Lower(fret.row_data[c][1]) = Lower(name)
                  /\ fret.value.custom_fields[name] = Strip(fret.row_data[c][2])
                  /\ fret.value.custom_fields[name] # <<>>

\* ================================================================ CSVParser

\* COLUMN_MAPPINGS: for each logical field, its aliases in the table's order.
ColumnMappings ==
    [title |-> <<<<"i", "s", "s", "u", "e", " ", "t", "i", "t", "l", "e">>, <<"t", "i", "t", "l", "e">>, <<"i", "s", "s", "u", "e">>, <<"s", "u", "m", "m", "a", "r", "y">>, <<"n", "a", "m", "e">>>>,
     description |-> <<<<"d", "e", "s", "c", "r", "i", "p", "t", "i", "o", "n">>, <<"d", "e", "s", "c">>, <<"d", "e", "t", "a", "i", "l", "s">>, <<"b", "o", "d", "y">>, <<"c", "o", "n", "t", "e", "n", "t">>>>,
     assignee |-> <<<<"a", "s", "s", "i", "g", "n", "e", "e">>, <<"a", "s", "s", "i", "g", "n", "e", "d", " ", "t", "o">>, <<"o", "w", "n", "e", "r">>, <<"r", "e", "s", "p", "o", "n", "s", "i", "b", "l", "e">>>>,
     labels |-> <<<<"l", "a", "b", "e", "l">>, <<"l", "a", "b", "e", "l", "s">>, <<"t", "a", "g", "s">>, <<"c", "a", "t", "e", "g", "o", "r", "y">>, <<"t", "y", "p", "e">>>>]

\* The header lines a file is drawn from; no two headers of a line are equal
\* once stripped and lower-cased. All four fields under aliases in mixed
\* case and with spaces around, and the same headers in another order and
\* case; the two required fields and the assignee under later aliases; no
\* description; no title; neither; an empty file; two aliases of each
\* required field, in two orders.
HeaderLines ==
    { <<<<"T", "i", "t", "l", "e">>, <<" ", "D", "e", "s", "c", " ">>, <<"O", "w", "n", "e", "r">>, <<"T", "a", "g", "s">>>>,
      <<<<"T", "A", "G", "S">>, <<"o", "w", "n", "e", "r">>, <<"d", "e", "s", "c">>, <<" ", "t", "i", "t", "l", "e">>>>,
      <<<<"s", "u", "m", "m", "a", "r", "y">>, <<"d", "e", "t", "a", "i", "l", "s">>, <<"o", "w", "n", "e", "r">>>>,
      <<<<"t", "i", "t", "l", "e">>, <<"o", "w", "n", "e", "r">>>>,
      <<<<"b", "o", "d", "y">>, <<"l", "a", "b", "e", "l", "s">>>>,
      <<<<"i", "d">>, <<"n", "o", "t", "e", "s">>>>,
      << >>,
      <<<<"n", "a", "m", "e">>, <<"I", "s", "s", "u", "e", " ", "T", "i", "t", "l", "e">>, <<"b", "o", "d", "y">>, <<"D", "e", "s", "c", "r", "i", "p", "t", "i", "o", "n">>>>,
      <<<<"d", "e", "s", "c", "r", "i", "p", "t", "i", "o", "n">>, <<"B", "o", "d", "y">>, <<"i", "s", "s", "u", "e", " ", "t", "i", "t", "l", "e">>, <<"N", "a", "m", "e">>>> }

\* The rows a file is drawn from, as the cells of up to four columns: a full
\* row; a row with a blank first cell; a row with spaces around its first
\* cell, empty and blank cells, and two kinds of separator in its last; a
\* row with an empty first cell.
RowChoices ==
    { <<<<"F", "i", "x">>, <<"t", "x", "t">>, <<"a", "l">>, <<"b", "u", "g", ",", " ", "u", "i">>>>,
      <<<<" ", " ">>, <<"t", "x", "t">>, <<>>, <<>>>>,
      <<<<" ", "D", "o", "c", " ">>, <<>>, <<" ">>, <<"a", ";", "b", "|", "c">>>>,
      <<<<>>, <<" ", "t", " ">>, <<"a", "l", " ">>, <<"x">>>> }

\* The raw strings _parse_labels is called with: none, the empty string, a
\* blank one, one label with spaces around, each pair of separators in both
\* positional orders, and empty pieces.
LabelInputs ==
    { None, Some(<<>>), Some(<<" ">>), Some(<<" ", "x", " ">>), Some(<<"a", ",", "b", ";", "c">>),
      Some(<<"a", ";", "b", ",", "c">>), Some(<<"c", "|", "a", ";", "b">>), Some(<<"a", "|", "b">>), Some(<<",", "a", ",", ",", " ", "b", " ", ",">>),
      Some(<<" ", ";", " ">>) }

\* The files: a header line and at most MaxRows rows, each with one cell per
\* header.
CsvFiles ==
    {[headers |-> h, rows |-> [k \in DOMAIN rs |-> SubSeq(rs[k], 1, Len(h))]] :
        h \in HeaderLines, rs \in UNION {[1..n -> RowChoices] : n \in 0..MaxRows}}

\* self.df.columns.str.strip().str.lower()
CleanHeaders(headers) == [k \in DOMAIN headers |-> Lower(Strip(headers[k]))]

\* The data frame read from a file: its cleaned column names and its rows.
DataFrame(file) == [columns |-> CleanHeaders(file.headers), rows |-> file.rows]

\* The first column, in the file's order, that is an alias of `field`.
FirstAliasInFileOrder(field, columns) ==
    LET aliases == ColumnMappings[field]
        at == {k \in DOMAIN columns : \E a \in DOMAIN aliases : columns[k] = aliases[a]}
    IN  IF at = {} THEN None ELSE Some(columns[Least(at)])

\* The first alias of `field`, in the table's order, that is a column.
FirstAlias(field, columns) ==
    LET aliases == ColumnMappings[field]
        at == {a \in DOMAIN aliases : \E k \in DOMAIN columns : columns[k] = aliases[a]}
    IN  IF at = {} THEN None ELSE Some(aliases[Least(at)])

\* _map_columns(): each logical field that has an alias among the columns,
\* mapped to the first such alias.
MapColumns(columns) ==
    [field \in {fl \in DOMAIN ColumnMappings : FirstAlias(fl, columns) # None} |->
        FirstAlias(field, columns)[1]]

\* Only the title required.
MissingFieldsTitleOnly(map) ==
    SelectSeq(<<"title">>, LAMBDA field : field \notin DOMAIN map)

\* _validate_required_columns(): the required fields that are not mapped.
MissingFields(map) ==
    SelectSeq(<<"title", "description">>, LAMBDA field : field \notin DOMAIN map)

\* parse() up to the loop over the rows: the file is read, its headers are
\* cleaned and mapped, and the required columns are validated. An empty file
\* makes read_csv raise; every exception is raised again as a ValueError.
ParseBegin ==
    /\ cpc = "new"
    /\ IF csvFile.headers = <<>>
       THEN /\ cret' = [call |-> "parse", raised |-> "ValueError",
                        message |-> "Error parsing CSV file: No columns to parse from file"]
            /\ cpc' = "done"
            /\ UNCHANGED <<df, column_map>>
       ELSE /\ df' = Some(DataFrame(csvFile))
            /\ column_map' = MapColumns(CleanHeaders(csvFile.headers))
            /\ IF MissingFields(column_map') # <<>>
               THEN /\ cret' = [call |-> "parse", raised |-> "ValueError",
                                message |-> "Error parsing CSV file: Missing required columns",
                                missing |-> MissingFields(column_map')]
                    /\ cpc' = "done"
               ELSE /\ cret' = [call |-> "parse", running |-> TRUE]
                    /\ cpc' = "rows"
    /\ row_i' = IF cpc' = "rows" THEN 1 ELSE 0
    /\ UNCHANGED <<csvFile, parsed, warnings>>
    /\ UNCHANGED <<issueVars, projVars, fnVars>>

\* _get_field_value(): the cell of the column mapped to `field`, or None when
\* the field is not mapped or the cell is empty.
GetFieldValue(frame, map, row, field) ==
    IF field \notin DOMAIN map
    THEN None
    ELSE LET k == CHOOSE c \in DOMAIN frame.columns : frame.columns[c] = map[field]
         IN  IF row[k] # <<>> THEN Some(row[k]) ELSE None

\* str.split(sep): the pieces of `s` between the occurrences of `sep`.
RECURSIVE Split(_, _)
Split(s, sep) ==
    LET at == {k \in DOMAIN s : s[k] = sep}
    IN  IF at = {}
        THEN <<s>>
        ELSE <<SubSeq(s, 1, Least(at) - 1)>> \o Split(SubSeq(s, Least(at) + 1, Len(s)), sep)

\* The raw cell split at every separator it holds, whichever kind.
ParseLabelsAtEverySeparator(labels_raw) ==
    IF ~Truthy(labels_raw)
    THEN <<>>
    ELSE LET raw == labels_raw[1]
             Unified(c) == IF c \in {",", ";", "|"} THEN "," ELSE c
             labels == Split([k \in DOMAIN raw |-> Unified(raw[k])], ",")
             stripped == [k \in DOMAIN labels |-> Strip(labels[k])]
         IN  SelectSeq(stripped, LAMBDA label : label # <<>>)

\* _parse_labels(): the raw cell split at the first of ",", ";", "|" it
\* holds, each piece stripped, empty pieces dropped.
ParseLabels(labels_raw) ==
    IF ~Truthy(labels_raw)
    THEN <<>>
    ELSE LET raw == labels_raw[1]
             separators == <<",", ";", "|">>
             present == {k \in DOMAIN separators : \E c \in DOMAIN raw : raw[c] = separators[k]}
             labels == IF present = {} THEN <<raw>> ELSE Split(raw, separators[Least(present)])
             stripped == [k \in DOMAIN labels |-> Strip(labels[k])]
         IN  SelectSeq(stripped, LAMBDA label : label # <<>>)

\* Every row made a record, whatever its title.
RowToIssueResultUnchecked(frame, map, row) ==
    LET title == GetFieldValue(frame, map, row, "title")
        description == GetFieldValue(frame, map, row, "description")
        owner == GetFieldValue(frame, map, row, "assignee")
    IN  Some(IssueData(IF Truthy(title) THEN Strip(title[1]) ELSE <<>>,
                       IF Truthy(description) THEN Strip(description[1]) ELSE <<>>,
                       IF Truthy(owner) THEN Some(Strip(owner[1])) ELSE None,
                       ParseLabels(GetFieldValue(frame, map, row, "labels"))))

\* _row_to_issue(): None for a row whose title is empty or blank, else the
\* record of the row.
RowToIssueResult(frame, map, row) ==
    LET title == GetFieldValue(frame, map, row, "title")
        description == GetFieldValue(frame, map, row, "description")
        assigned == GetFieldValue(frame, map, row, "assignee")
        owner == IF Truthy(assigned) /\ Strip(assigned[1]) = <<>> THEN None ELSE assigned
        labels == ParseLabels(GetFieldValue(frame, map, row, "labels"))
    IN  IF ~Truthy(title) \/ Strip(title[1]) = <<>>
        THEN None
        ELSE Some(IssueData(Strip(title[1]),
                            IF Truthy(description) THEN Strip(description[1]) ELSE <<>>,
                            IF Truthy(owner) THEN Some(Strip(owner[1])) ELSE None,
                            labels))

\* One turn of the loop of parse(): the row is converted; a record is
\* collected, a row without one is skipped with a printed warning.
RowToIssue ==
    /\ cpc = "rows"
    /\ row_i <= Len(df[1].rows)
    /\ LET issue == RowToIssueResult(df[1], column_map, df[1].rows[row_i])
       IN  IF issue # None
           THEN /\ parsed' = Append(parsed, issue[1])
                /\ UNCHANGED warnings
           ELSE /\ warnings' = Append(warnings, row_i)
                /\ UNCHANGED parsed
    /\ row_i' = row_i + 1
    /\ UNCHANGED <<csvFile, df, column_map, cpc, cret>>
    /\ UNCHANGED <<issueVars, projVars, fnVars>>

\* _parse_labels(labels_raw), called on its own.
ParseLabelsCall ==
    /\ cpc = "new"
    /\ cret.call = "none"
    /\ \E labels_raw \in LabelInputs :
          cret' = [call |-> "_parse_labels", arg |-> labels_raw,
                   value |-> ParseLabels(labels_raw)]
    /\ UNCHANGED <<csvFile, df, column_map, cpc, row_i, parsed, warnings>>
    /\ UNCHANGED <<issueVars, projVars, fnVars>>

\* parse() returns the records collected.
ParseReturn ==
    /\ cpc = "rows"
    /\ row_i > Len(df[1].rows)
    /\ cret' = [call |-> "parse", value |-> parsed]
    /\ cpc' = "done"
    /\ UNCHANGED <<csvFile, df, column_map, row_i, parsed, warnings>>
    /\ UNCHANGED <<issueVars, projVars, fnVars>>

\* A parser constructed over one of the files; the other classes are unused.
CsvInit ==
    /\ csvFile \in CsvFiles
    /\ df = None
    /\ column_map = <<>>
    /\ cpc = "new"
    /\ row_i = 0
    /\ parsed = <<>>
    /\ warnings = <<>>
    /\ cret = [call |-> "none"]
    /\ IssueClientUnused
    /\ ProjectsClientUnused
    /\ FieldsUnused

CsvNext ==
    \/ ParseLabelsCall
    \/ ParseBegin
    \/ RowToIssue
    \/ ParseReturn

SpecCsv == CsvInit /\ [][CsvNext]_vars

\* ---------------------------------------------------------------- C20

\* The cleaned headers of the file hold an alias of `field`.
HasAlias(field) ==
    \E k \in DOMAIN csvFile.headers, a \in DOMAIN ColumnMappings[field] :
        Lower(Strip(csvFile.headers[k])) = ColumnMappings[field][a]

RequiredResolved == HasAlias("title") /\ HasAlias("description")

ParseRaised == cret.call = "parse" /\ "raised" \in DOMAIN cret

\* C20: once parse() has validated the columns of a file with a header line:
\* when no alias of title or no alias of description is a header, parse()
\* has raised and no row was converted (no record, no warning); when both
\* have one, parse() does not raise, whether or not assignee and labels
\* have an alias.
C20_RequiredColumnsOrFatal ==
    (cpc # "new" /\ csvFile.headers # <<>>) =>
        IF RequiredResolved
        THEN ~ParseRaised
        ELSE /\ ParseRaised
             /\ cpc = "done"
             /\ row_i = 0
             /\ parsed = <<>>
             /\ warnings = <<>>

\* parse() raised over a file that has a title column, no description
\* column, and rows.
C20_Witness ==
    /\ ParseRaised
    /\ HasAlias("title")
    /\ ~HasAlias("description")
    /\ Len(csvFile.rows) = MaxRows

\* ---------------------------------------------------------------- C21

\* The file's headers are exactly summary, details, owner.
SummaryDetailsOwner ==
    csvFile.headers = <<<<"s", "u", "m", "m", "a", "r", "y">>, <<"d", "e", "t", "a", "i", "l", "s">>, <<"o", "w", "n", "e", "r">>>>

\* C21: once parse() has validated the columns of a file whose headers are
\* summary, details, owner, it has raised a ValueError whose message
\* contains 'Missing required columns'.
C21_SummaryDetailsRejected ==
    (SummaryDetailsOwner /\ cpc # "new") =>
        /\ ParseRaised
        /\ cret.raised = "ValueError"
        /\ cret.message = "Error parsing CSV file: Missing required columns"

\* ---------------------------------------------------------------- C22

\* The separators, in their priority order.
Separators == <<",", ";", "|">>

\* The separators that occur in `raw`, by their priority.
Occurring(raw) ==
    {k \in DOMAIN Separators : \E c \in DOMAIN raw : raw[c] = Separators[k]}

\* The elements of a set of integers in increasing order.
Ascending(S) ==
    CHOOSE f \in [1..Cardinality(S) -> S] :
        \A a, b \in 1..Cardinality(S) : a < b => f[a] < f[b]

\* The stretches of `raw` between the occurrences of `sep`, in order.
Pieces(raw, sep) ==
    LET at == Ascending({c \in DOMAIN raw : raw[c] = sep})
        cuts == <<0>> \o at \o <<Len(raw) + 1>>
    IN  [k \in 1..(Len(cuts) - 1) |-> SubSeq(raw, cuts[k] + 1, cuts[k + 1] - 1)]

\* The stripped pieces that are not empty, in order.
TrimmedTokens(pieces) ==
    SelectSeq([k \in DOMAIN pieces |-> Strip(pieces[k])], LAMBDA t : t # <<>>)

\* C22: _parse_labels splits at one kind of separator only, the first of
\* comma, semicolon, pipe that occurs anywhere in the string, whichever
\* comes first by position; the other separator characters stay inside the
\* tokens; every token is trimmed and non-empty and the tokens keep their
\* order; a string without a separator yields its one trimmed token (none
\* when the string is blank); no string and the empty string yield [].
C22_OneSeparatorKind ==
    cret.call = "_parse_labels" =>
        LET out == cret.value
        IN  /\ \A k \in DOMAIN out : out[k] # <<>> /\ out[k] = Strip(out[k])
            /\ IF cret.arg = None \/ cret.arg = Some(<<>>)
               THEN out = <<>>
               ELSE LET raw == cret.arg[1]
                    IN  IF Occurring(raw) = {}
                        THEN out = TrimmedTokens(<<raw>>)
                        ELSE out = TrimmedTokens(
                                      Pieces(raw, Separators[Least(Occurring(raw))]))
            /\ cret.arg = Some(<<"a", ",", "b", ";", "c">>) => out = <<<<"a">>, <<"b", ";", "c">>>>

\* C22 witness: a semicolon comes first by position, and the string was
\* split at its comma only.
C22_Witness ==
    /\ cret.call = "_parse_labels"
    /\ cret.arg = Some(<<"a", ";", "b", ",", "c">>)
    /\ cret.value = <<<<"a", ";", "b">>, <<"c">>>>

\* ---------------------------------------------------------------- C23

LogicalFields == {"title", "description", "assignee", "labels"}

\* The headers of a header line, trimmed and lower-cased, as a set.
HeaderSet(headers) == {Lower(Strip(headers[k])) : k \in DOMAIN headers}

\* The positions in the alias table of the aliases of `field` that are
\* headers of the file.
AliasesPresent(field) ==
    {a \in DOMAIN ColumnMappings[field] :
        ColumnMappings[field][a] \in HeaderSet(csvFile.headers)}

\* C23: once the headers of a file are resolved, each logical field with an
\* alias among the trimmed, lower-cased headers is mapped to the first such
\* alias in the alias table's order, and a field without one is not mapped;
\* every header line with the same headers in another order or case
\* resolves to the same mapping; no header is mapped to two fields; and
\* Title, Desc, Owner, Tags map to title, desc, owner, tags.
C23_FirstAliasInTableOrder ==
    (cpc # "new" /\ csvFile.headers # <<>>) =>
        /\ DOMAIN column_map = {fl \in LogicalFields : AliasesPresent(fl) # {}}
        /\ \A fl \in DOMAIN column_map :
              column_map[fl] = ColumnMappings[fl][Least(AliasesPresent(fl))]
        /\ \A h \in HeaderLines :
              HeaderSet(h) = HeaderSet(csvFile.headers) =>
                  MapColumns(CleanHeaders(h)) = column_map
        /\ \A f1, f2 \in DOMAIN column_map :
              f1 # f2 => column_map[f1] # column_map[f2]
        /\ csvFile.headers = <<<<"T", "i", "t", "l", "e">>, <<" ", "D", "e", "s", "c", " ">>, <<"O", "w", "n", "e", "r">>, <<"T", "a", "g", "s">>>> =>
              column_map = [title |-> <<"t", "i", "t", "l", "e">>, description |-> <<"d", "e", "s", "c">>,
                            assignee |-> <<"o", "w", "n", "e", "r">>, labels |-> <<"t", "a", "g", "s">>]

\* C23 witness: the file lists a later alias of title before an earlier one
\* and a later alias of description before an earlier one; the earlier
\* aliases were mapped.
C23_Witness ==
    /\ cpc # "new"
    /\ csvFile.headers = <<<<"n", "a", "m", "e">>, <<"I", "s", "s", "u", "e", " ", "T", "i", "t", "l", "e">>, <<"b", "o", "d", "y">>, <<"D", "e", "s", "c", "r", "i", "p", "t", "i", "o", "n">>>>
    /\ column_map = [title |-> <<"i", "s", "s", "u", "e", " ", "t", "i", "t", "l", "e">>, description |-> <<"d", "e", "s", "c", "r", "i", "p", "t", "i", "o", "n">>]

\* ---------------------------------------------------------------- C24

\* The cell of row k of the file under the header mapped to `field`; empty
\* when the field is not mapped.
CellOf(k, field) ==
    IF field \notin DOMAIN column_map
    THEN <<>>
    ELSE LET c == CHOOSE h \in DOMAIN csvFile.headers :
                      Lower(Strip(csvFile.headers[h])) = column_map[field]
         IN  csvFile.rows[k][c]

\* The rows parse() has been through.
RowsHandled == 1..(row_i - 1)

\* The rows handled whose title is neither empty nor blank.
TitledRows == {k \in RowsHandled : Strip(CellOf(k, "title")) # <<>>}

\* C24: while parse() goes through the rows and when it has returned: the
\* records are those of the rows whose title is neither empty nor blank, in
\* file order; each of the other rows was dropped with a warning and
\* nothing was raised; every record's title is trimmed and non-empty, an
\* empty description is the empty string and an empty or blank assignee is
\* None.
C24_BlankTitleRowsDropped ==
    (cret.call = "parse" /\ ~ParseRaised) =>
        /\ Len(parsed) = Cardinality(TitledRows)
        /\ warnings = Ascending(RowsHandled \ TitledRows)
        /\ \A n \in DOMAIN parsed :
              LET k == Ascending(TitledRows)[n]
              IN  /\ parsed[n].title = Strip(CellOf(k, "title"))
                  /\ parsed[n].title # <<>>
                  /\ parsed[n].description = Strip(CellOf(k, "description"))
                  /\ parsed[n].assignee =
                        IF Strip(CellOf(k, "assignee")) = <<>> THEN None
                        ELSE Some(Strip(CellOf(k, "assignee")))
        /\ cpc = "done" => (row_i = Len(csvFile.rows) + 1 /\ cret.value = parsed)

\* C24 witness: of two rows the first has a blank title; parse() returned
\* the record of the second alone, with an empty description and no
\* assignee.
C24_Witness ==
    /\ cpc = "done"
    /\ cret.call = "parse"
    /\ csvFile.headers = <<<<"T", "i", "t", "l", "e">>, <<" ", "D", "e", "s", "c", " ">>, <<"O", "w", "n", "e", "r">>, <<"T", "a", "g", "s">>>>
    /\ Len(csvFile.rows) = 2
    /\ warnings = <<1>>
    /\ "value" \in DOMAIN cret
    /\ cret.value = <<IssueData(<<"D", "o", "c">>, <<>>, None, <<<<"a">>, <<"b", "|", "c">>>>)>>

\* ---------------------------------------------------------------- C25

\* The graph calls a step adds to the log.
Issued == SubSeq(gql', Len(gql) + 1, Len(gql'))

\* One mutation was issued, for `field`, carrying `value`.
OneMutation(field, value) ==
    /\ Len(Issued) = 1
    /\ Issued[1].kind = "mutation"
    /\ Issued[1].name = "updateProjectV2ItemFieldValue"
    /\ Issued[1].args.fieldId = field.id
    /\ Issued[1].args.value = value

\* The remote options of `field` named `value` in any case.
OptionsNamed(field, value) ==
    LET options == RemoteFieldOptions(field.id)
    IN  {options[k] : k \in {n \in DOMAIN options : Lower(options[n].name) = Lower(value)}}

\* The option query for `field` was issued first; the mutation follows
\* exactly when the query answered and an option is named `value` in any
\* case, and carries that option's id.
SelectDispatch(field, value) ==
    /\ Len(Issued) >= 1
    /\ Issued[1].kind = "query"
    /\ Issued[1].args.fieldId = field.id
    /\ IF Issued[1].ok /\ OptionsNamed(field, value) # {}
       THEN /\ Len(Issued) = 2
            /\ Issued[2].kind = "mutation"
            /\ Issued[2].args.fieldId = field.id
            /\ \E o \in OptionsNamed(field, value) :
                  Issued[2].args.value = [singleSelectOptionId |-> o.id]
       ELSE Len(Issued) = 1

\* What the step that handles the custom field at position fi issued, by
\* the declared type of the field it names.
DispatchedByType ==
    LET entry == pcall.custom_fields[fi]
        field == FieldNamed(pcall.project.custom_fields, entry[1])
        value == entry[2]
    IN  IF field = None THEN Issued = <<>>
        ELSE IF field[1].data_type = "TEXT" THEN OneMutation(field[1], [text |-> value])
        ELSE IF field[1].data_type = "NUMBER"
        THEN (IF FloatOf(value) = None THEN Issued = <<>>
              ELSE OneMutation(field[1], [number |-> FloatOf(value)[1]]))
        ELSE IF field[1].data_type = "DATE" THEN OneMutation(field[1], [date |-> value])
        ELSE IF field[1].data_type = "SINGLE_SELECT" THEN SelectDispatch(field[1], value)
        ELSE Issued = <<>>

\* C25: every step of the custom-field phase dispatches on the declared type
\* of the field: a text field is sent {text: the raw string}; a number
\* field {number: the parsed value}, or nothing when the value does not
\* parse; a date field {date: the string}; a single-select field
\* {singleSelectOptionId} only when an option with that name in any case is
\* resolved, else nothing; a field of any other type, ITERATION included,
\* nothing.
C25_TypedDispatch ==
    [][(ppc = "fields" /\ fi <= Len(pcall.custom_fields)) => DispatchedByType]_vars

\* C25 witness: an assignment with a number and a date has returned; the
\* number went out parsed and the date as written.
C25_Witness ==
    /\ AssignCalled
    /\ ppc = "idle"
    /\ pcall.status = None
    /\ Len(pcall.custom_fields) = 2
    /\ pcall.custom_fields[1][2] = <<"3", "0">>
    /\ Len(gql) = 3
    /\ gql[2].name = "updateProjectV2ItemFieldValue"
    /\ DOMAIN gql[2].args.value = {"number"}
    /\ gql[2].args.value.number = 30
    /\ DOMAIN gql[3].args.value = {"date"}
    /\ gql[3].args.value.date = <<"d", "1">>

\* ---------------------------------------------------------------- C26

\* The project nodes the remote holds.
RemoteNodes ==
    LET scopes == {remoteProjects.repository, remoteProjects.organization,
                   remoteProjects.user}
    IN  UNION {{s[k] : k \in DOMAIN s} : s \in scopes}

\* The options of the node's field named Status in any case, when that field
\* is a single-select field; none otherwise.
SynthesizedOptions(node) ==
    LET at == {k \in DOMAIN node.fields :
                  /\ "name" \in DOMAIN node.fields[k]
                  /\ Lower(node.fields[k].name) = <<"s", "t", "a", "t", "u", "s">>}
    IN  IF at # {} /\ node.fields[Least(at)].dataType = "SINGLE_SELECT"
        THEN node.fields[Least(at)].options
        ELSE <<>>

\* The columns of the project parsed from `node`: one per view, in order,
\* then one per synthesized option, in order, flagged iff first or named
\* todo, backlog or new.
ColumnsSynthesized(p, node) ==
    LET views == node.views
        options == SynthesizedOptions(node)
    IN  /\ Len(p.columns) = Len(views) + Len(options)
        /\ \A k \in DOMAIN views :
              /\ p.columns[k].id = views[k].id
              /\ p.columns[k].name = views[k].name
        /\ \A k \in DOMAIN options :
              /\ p.columns[Len(views) + k].name = options[k].name
              /\ p.columns[Len(views) + k].is_default <=>
                    (k = 1 \/ Lower(options[k].name) \in {<<"t", "o", "d", "o">>, <<"b", "a", "c", "k", "l", "o", "g">>, <<"n", "e", "w">>})

\* C26: every discovered project has one column per view of its node,
\* followed by one column per option of the node's Status field when that
\* field is a single-select field, in option order, flagged iff it is the
\* first option or named todo, backlog or new; a Status field of another
\* type adds no column.
C26_StatusColumnsSynthesized ==
    \A k \in DOMAIN found :
        \A node \in RemoteNodes : node.id = found[k].id => ColumnsSynthesized(found[k], node)

\* C26 witness: discovery found the project with a view and three status
\* options, the third flagged by its name, and the project whose Status
\* field is a text field, with its two views alone.
C26_Witness ==
    /\ projects_cache # None
    /\ \E k \in DOMAIN projects_cache[1] :
          /\ projects_cache[1][k].id = NodeRoadmap.id
          /\ Len(projects_cache[1][k].columns) = 4
          /\ projects_cache[1][k].columns[3].is_default = FALSE
          /\ projects_cache[1][k].columns[4].name = <<"N", "e", "w">>
          /\ projects_cache[1][k].columns[4].is_default
    /\ \E k \in DOMAIN projects_cache[1] :
          /\ projects_cache[1][k].id = NodePlan.id
          /\ Len(projects_cache[1][k].columns) = 2

\* ---------------------------------------------------------------- C27

\* The positions in the call log of the calls issued for record k.
CallsFor(k) == {n \in DOMAIN calls : calls[n].rec = k}

\* The step has recorded a Skipped outcome.
SkippedRecorded ==
    /\ Len(results') = Len(results) + 1
    /\ results'[Len(results')].skipped

\* C27: the step that classifies a record as Skipped issues no remote call
\* and leaves the label cache and the repository as they are; and no call
\* of the log (collaborator lookup, label creation, issue creation) was
\* issued for a record whose outcome is Skipped.
C27_SkippedCausesNoCall ==
    /\ [][SkippedRecorded =>
             /\ calls' = calls
             /\ existing_labels_cache' = existing_labels_cache
             /\ remoteLabels' = remoteLabels
             /\ remoteIssues' = remoteIssues]_vars
    /\ [](\A k \in 1..Len(results) : results[k].skipped => CallsFor(k) = {})

\* C27 witness: the first record, with an assignee and labels, was skipped,
\* and the second was submitted for creation: the log holds calls for the
\* second only.
C27_Witness ==
    /\ Len(results) = 2
    /\ results[1].skipped
    /\ Truthy(issues[1].assignee)
    /\ issues[1].labels # <<>>
    /\ CallsFor(1) = {}
    /\ CreateCallsFor(2) # {}

\* ---------------------------------------------------------------- C28

\* The values of the label cache.
CachedNames ==
    {existing_labels_cache[1][k] : k \in DOMAIN existing_labels_cache[1]}

\* The names listed when the batch started (none when the listing failed).
ListedNames == IF calls[2].ok THEN calls[2].arg ELSE {}

\* The names returned by the label creations that succeeded so far.
CreatedNames ==
    {NewLabelName(calls[n].arg) :
        n \in {m \in DOMAIN calls : calls[m].op = "create_label" /\ calls[m].ok}}

\* The step issues the issue-creation call.
IssueSubmitted ==
    /\ Len(calls') = Len(calls) + 1
    /\ calls'[Len(calls')].op = "create_issue"

\* C28: at the moment an issue-creation call is issued, every label name it
\* passes is a value of the label cache, exists in the repository, and is a
\* name listed at the start of the batch or returned by a label creation
\* that succeeded earlier in the run.
C28_PassedLabelsResolved ==
    [][IssueSubmitted =>
          \A n \in DOMAIN calls'[Len(calls')].arg.labels :
              LET name == calls'[Len(calls')].arg.labels[n]
              IN  /\ name \in CachedNames
                  /\ name \in remoteLabels
                  /\ name \in ListedNames \cup CreatedNames]_vars

\* C28 witness: an issue was submitted with three labels, the first created
\* in this run, the second listed at the start under another case than
\* requested.
C28_Witness ==
    \E n \in DOMAIN calls :
        /\ calls[n].op = "create_issue"
        /\ Len(calls[n].arg.labels) = 3
        /\ calls[n].arg.labels[1] \in CreatedNames \ ListedNames
        /\ calls[n].arg.labels[2] \in ListedNames
        /\ calls[n].arg.labels[2] # issues[calls[n].rec].labels[2]

\* ---------------------------------------------------------------- C29

\* The latest call, an assignment, has returned.
AssignReturned == AssignCalled /\ ppc = "idle" /\ pret.call = "add_issue_to_project"

\* The mutations that set a field of the item and succeeded.
FieldsSet ==
    {n \in DOMAIN gql : gql[n].name = "updateProjectV2ItemFieldValue" /\ gql[n].ok}

\* C29: when add_issue_to_project has returned, its result is True exactly
\* when the attach answered an item identifier, whatever became of the
\* status and of the custom fields.
C29_TrueIffAttached ==
    AssignReturned => (pret.value <=> Truthy(gql[1].result))

\* C29 witness: an assignment with a status and five custom fields returned
\* True though not one field of the item was set.
C29_Witness ==
    /\ AssignReturned
    /\ pret.value
    /\ Truthy(pcall.status)
    /\ Len(pcall.custom_fields) = 5
    /\ Len(gql) > 1
    /\ FieldsSet = {}

\* ---------------------------------------------------------------- C30

\* The status phase of the current assignment is just over.
StatusPhaseOver == AssignCalled /\ ppc = "fields" /\ fi = 1

\* validate_project_fields has no objection to the status of the current
\* assignment on its project.
StatusAccepted ==
    /\ Truthy(pcall.status)
    /\ StatusErrors(pcall.project, pcall.status) = <<>>

\* C30: when the status of an assignment is one validate_project_fields
\* accepts on the project, the status phase of add_issue_to_project finds
\* it among the options of the project's Status field: it goes as far as
\* the option query instead of stopping before any call.
C30_AcceptedStatusFound ==
    (StatusPhaseOver /\ StatusAccepted) =>
        /\ Len(gql) >= 2
        /\ gql[2].name = "field_options"
        /\ StatusField(pcall.project.custom_fields) # None
        /\ gql[2].args.fieldId = StatusField(pcall.project.custom_fields)[1].id

====
